---- MODULE Spec2Model ----
(***************************************************************************)
(* Address-translation engine of the memory-hierarchy simulator: the       *)
(* set-associative LRU cache (TLBs and page-walk caches), the four-level   *)
(* page table with on-demand allocation, and the two physical-memory       *)
(* allocators (linear, and tiny-pointer / power-of-two-choices).           *)
(*                                                                         *)
(* Address geometry.  The source works on 64-bit addresses with 4 KiB      *)
(* pages (kPageShift = 12) and 512-entry tables; TLC's integers are 32     *)
(* bits wide, so the geometry is scaled: kPageShift and the per-level      *)
(* index widths are small numbers, and every shift, mask and index below   *)
(* is computed from them exactly as the source computes it from 12 and 9.  *)
(* Page-table entries are the 8-byte layout (PageTableEntry8B) on every    *)
(* level, which is what the source selects for 512-entry tables.           *)
(* Page-table entry fetches through the data cache are switched off        *)
(* (pgtbl.pteCachable = false, the default of SimConfig).                  *)
(***************************************************************************)
EXTENDS Integers, Sequences, FiniteSets, TLC

(***************************************************************************)
(* Bounds of the model                                                     *)
(***************************************************************************)
kPageShift == 2
PgdBits == 2
PudBits == 1
PmdBits == 1
PteBits == 1
NumFrames == 24
MaxRefs == 5
L1TlbWays == 2
L2TlbWays == 2
L2TlbSets == 2
PwcWays == 2
SweepL1Ways == 2
SweepL2Ways == 4
SweepPages == 8
SacSets == 2
SacWays == 2
MaxSacOps == 4
MaxLineOps == 4
MosaicFrames == 260

Po2CFrames == 100
SmallFrames == 40

MaxPwcOps == 4

DcNumSets == 1

DcL1Ways == 1

DcL2Ways == 2

DcL3Ways == 2

DcLineBits == 1

MaxCacheOps == 5
MaxRunRefs == 3
MaxEntryCount == 4
kWordBits == 16

(***************************************************************************)
(* Bit arithmetic on naturals                                              *)
(***************************************************************************)
Pow2(n) == 2 ^ n

Shr(x, s) == x \div Pow2(s)

Shl(x, s) == x * Pow2(s)

LowBits(x, n) == x % Pow2(n)

(***************************************************************************)
(* common.h                                                                *)
(***************************************************************************)
kMemTracePageSize == Pow2(kPageShift)

kPageMask == kMemTracePageSize - 1

(***************************************************************************)
(* cache.h: SetAssociativeCache<UINT64, UINT64>                            *)
(***************************************************************************)
CacheEntry == [tag |-> 0, value |-> 0, valid |-> FALSE, dirty |-> FALSE, lruCounter |-> 0]

NewCache(numSets, ways) ==
    [numSets |-> numSets, numWays |-> ways, accesses |-> 0, hits |-> 0,
     globalLruCounter |-> 0,
     sets |-> [s \in 0 .. numSets - 1 |-> [w \in 0 .. ways - 1 |-> CacheEntry]]]

RECURSIVE FindLruFrom(_, _, _, _, _)
FindLruFrom(c, setIndex, way, lruWay, minCounter) ==
    IF way >= c.numWays THEN lruWay
    ELSE IF ~c.sets[setIndex][way].valid THEN way
    ELSE IF c.sets[setIndex][way].lruCounter < minCounter
         THEN FindLruFrom(c, setIndex, way + 1, way, c.sets[setIndex][way].lruCounter)
         ELSE FindLruFrom(c, setIndex, way + 1, lruWay, minCounter)

\* A FindLruWay that picks, among valid ways, the most recently touched.
FindMruWay(c, setIndex) ==
    LET ways == 0 .. c.numWays - 1
        invalid == {w \in ways : ~c.sets[setIndex][w].valid}
    IN  IF invalid # {}
        THEN CHOOSE w \in invalid : \A v \in invalid : w <= v
        ELSE CHOOSE w \in ways :
                 \A v \in ways :
                     c.sets[setIndex][v].lruCounter <= c.sets[setIndex][w].lruCounter

FindLruWay(c, setIndex) ==
    FindLruFrom(c, setIndex, 0, 0, c.sets[setIndex][0].lruCounter)

UpdateLru(c, setIndex, wayIndex) ==
    [c EXCEPT !.globalLruCounter = @ + 1,
              !.sets[setIndex][wayIndex].lruCounter = c.globalLruCounter + 1]

\* The ways of a set that hold the tag; the loops of Lookup and Insert stop at
\* the first one.
MatchingWays(c, setIndex, tag) ==
    {w \in 0 .. c.numWays - 1 :
        c.sets[setIndex][w].valid /\ c.sets[setIndex][w].tag = tag}

FirstWay(ws) == CHOOSE w \in ws : \A v \in ws : w <= v

\* Lookup returns the new cache, the hit flag and the value read.
Lookup(c, setIndex, tag) ==
    LET c1 == [c EXCEPT !.accesses = @ + 1]
        ws == MatchingWays(c, setIndex, tag)
    IN  IF ws # {}
        THEN LET way == FirstWay(ws)
             IN  [cache |-> UpdateLru([c1 EXCEPT !.hits = @ + 1], setIndex, way),
                  hit |-> TRUE, value |-> c.sets[setIndex][way].value]
        ELSE [cache |-> c1, hit |-> FALSE, value |-> 0]

\* An Insert that, for a tag already present, sets dirty to isWrite.
InsertDirtyOverwritten(c, setIndex, tag, value, isWrite) ==
    LET ws == MatchingWays(c, setIndex, tag)
        victimWay == IF ws # {} THEN FirstWay(ws) ELSE FindLruWay(c, setIndex)
        old == c.sets[setIndex][victimWay]
        c1 == [c EXCEPT !.sets[setIndex][victimWay].tag = tag,
                        !.sets[setIndex][victimWay].value = value,
                        !.sets[setIndex][victimWay].valid = TRUE,
                        !.sets[setIndex][victimWay].dirty = isWrite]
    IN  [cache |-> UpdateLru(c1, setIndex, victimWay),
         evict |-> ws = {} /\ old.valid /\ old.dirty,
         evictTag |-> IF ws = {} THEN old.tag ELSE 0,
         evictValue |-> IF ws = {} THEN old.value ELSE 0]

\* Insert returns the new cache and what HandleEviction is called with.
Insert(c, setIndex, tag, value, isWrite) ==
    LET ws == MatchingWays(c, setIndex, tag)
    IN  IF ws # {}
        THEN LET way == FirstWay(ws)
                 c1 == [c EXCEPT !.sets[setIndex][way].value = value,
                                 !.sets[setIndex][way].dirty = @ \/ isWrite]
             IN  [cache |-> UpdateLru(c1, setIndex, way), evict |-> FALSE,
                  evictTag |-> 0, evictValue |-> 0]
        ELSE LET victimWay == FindLruWay(c, setIndex)
                 old == c.sets[setIndex][victimWay]
                 c1 == [c EXCEPT !.sets[setIndex][victimWay].tag = tag,
                                 !.sets[setIndex][victimWay].value = value,
                                 !.sets[setIndex][victimWay].valid = TRUE,
                                 !.sets[setIndex][victimWay].dirty = isWrite]
             IN  [cache |-> UpdateLru(c1, setIndex, victimWay),
                  evict |-> old.valid /\ old.dirty,
                  evictTag |-> old.tag, evictValue |-> old.value]

(***************************************************************************)
(* cache.h, the older SetAssociativeCache (findLruWay, lookup, insert):    *)
(* entries without a dirty bit, no eviction hook.  The dirty field of the  *)
(* entries is carried along and never set.                                 *)
(***************************************************************************)
\* findLruWay: the loop starts at way 1, with way 0 as the candidate.
findLruWay(c, setIndex) ==
    FindLruFrom(c, setIndex, 1, 0, c.sets[setIndex][0].lruCounter)

lookup(c, setIndex, tag) ==
    LET c1 == [c EXCEPT !.accesses = @ + 1]
        ws == MatchingWays(c, setIndex, tag)
    IN  IF ws # {}
        THEN LET way == FirstWay(ws)
             IN  [cache |-> UpdateLru([c1 EXCEPT !.hits = @ + 1], setIndex, way),
                  hit |-> TRUE, value |-> c.sets[setIndex][way].value]
        ELSE [cache |-> c1, hit |-> FALSE, value |-> 0]

insert(c, setIndex, tag, value) ==
    LET ws == MatchingWays(c, setIndex, tag)
    IN  IF ws # {}
        THEN LET way == FirstWay(ws)
             IN  [cache |-> UpdateLru([c EXCEPT !.sets[setIndex][way].value = value],
                                      setIndex, way),
                  evict |-> FALSE, evictTag |-> 0, evictValue |-> 0]
        ELSE LET victimWay == findLruWay(c, setIndex)
                 c1 == [c EXCEPT !.sets[setIndex][victimWay].tag = tag,
                                 !.sets[setIndex][victimWay].value = value,
                                 !.sets[setIndex][victimWay].valid = TRUE]
             IN  [cache |-> UpdateLru(c1, setIndex, victimWay),
                  evict |-> FALSE, evictTag |-> 0, evictValue |-> 0]

(***************************************************************************)
(* tlb.h: TLB, keyed by the virtual page number                            *)
(***************************************************************************)
TlbGetSetIndex(c, vpn) == vpn % c.numSets

TlbLookup(c, vpn) == Lookup(c, TlbGetSetIndex(c, vpn), vpn)

\* TLB::HandleEviction(vpn, pfn, dirty), applied to the cache hierarchy h:
\* the body is empty.
TlbHandleEviction(h, vpn, pfn, dirty) == h

\* HandleEviction of a TLB does nothing, so only the cache is kept.
TlbInsert(c, vpn, pfn) == Insert(c, TlbGetSetIndex(c, vpn), vpn, pfn, FALSE).cache

(***************************************************************************)
(* pwc.h: PageWalkCache, keyed by the bit slice [lowBit..highBit] of the   *)
(* virtual address (TOC mode off)                                          *)
(***************************************************************************)
NewPwc(numSets, ways, lowBit, highBit) ==
    [cache |-> NewCache(numSets, ways), indexBitsLow |-> lowBit, indexBitsHigh |-> highBit]

\* A getTag without the mask: every bit from low upwards.
GetTagUnmasked(p, vaddr) == Shr(vaddr, p.indexBitsLow)

\* (vaddr & (((1 << (high - low + 1)) - 1) << low)) >> low
GetTag(p, vaddr) ==
    LowBits(Shr(vaddr, p.indexBitsLow), p.indexBitsHigh - p.indexBitsLow + 1)

PwcGetSetIndex(p, vaTag) == vaTag % p.cache.numSets

\* A PwcLookup that searches under the whole address, not its tag.
PwcLookupWholeAddress(p, vaddr) ==
    LET r == Lookup(p.cache, PwcGetSetIndex(p, vaddr), vaddr)
    IN  [pwc |-> [p EXCEPT !.cache = r.cache], hit |-> r.hit, value |-> r.value]

PwcLookup(p, vaddr) ==
    LET tag == GetTag(p, vaddr)
        r == Lookup(p.cache, PwcGetSetIndex(p, tag), tag)
    IN  [pwc |-> [p EXCEPT !.cache = r.cache], hit |-> r.hit, value |-> r.value]

\* A PwcInsert that files the entry under the whole address, not its tag.
PwcInsertUntagged(p, vaddr, nextLevelPfn) ==
    [p EXCEPT !.cache = Insert(p.cache, PwcGetSetIndex(p, vaddr), vaddr, nextLevelPfn, FALSE).cache]

PwcInsert(p, vaddr, nextLevelPfn) ==
    LET tag == GetTag(p, vaddr)
    IN  [p EXCEPT !.cache = Insert(p.cache, PwcGetSetIndex(p, tag), tag, nextLevelPfn, FALSE).cache]

(***************************************************************************)
(* physical_memory.h: PhysicalMemory, the linear allocator                 *)
(***************************************************************************)
\* The state after PhysicalMemory's constructor, for a memory of n frames.
\* A PhysicalMemory whose reserved frame 0 is left out of the count.
NewPhysicalMemoryUncounted(n) ==
    [numFrames |-> n, allocatedFrames |-> 0, frameAllocated |-> {0}, nextFrame |-> 1]

NewPhysicalMemory(n) ==
    [numFrames |-> n, allocatedFrames |-> 1, frameAllocated |-> {0}, nextFrame |-> 1]

\* An AllocateFrame that marks the frame and counts it, and leaves nextFrame_
\* where it is.
LinearAllocateFrameNoAdvance(m, key) ==
    IF m.nextFrame >= m.numFrames
    THEN [mem |-> m, ok |-> FALSE, frame |-> 0]
    ELSE [mem |-> [m EXCEPT !.frameAllocated = @ \cup {m.nextFrame},
                            !.allocatedFrames = @ + 1],
          ok |-> TRUE, frame |-> m.nextFrame]

\* AllocateFrame ignores its key.  ok = FALSE is exit(1): memory exhausted.
LinearAllocateFrame(m, key) ==
    IF m.nextFrame >= m.numFrames
    THEN [mem |-> m, ok |-> FALSE, frame |-> 0]
    ELSE [mem |-> [m EXCEPT !.frameAllocated = @ \cup {m.nextFrame},
                            !.allocatedFrames = @ + 1,
                            !.nextFrame = @ + 1],
          ok |-> TRUE, frame |-> m.nextFrame]

(***************************************************************************)
(* physical_memory.h, physical_memory.cpp: MemoryPo2CTable and             *)
(* MosaicPhysicalMemory, the tiny-pointer allocator                        *)
(***************************************************************************)
kBinSize == 127

kNullTinyPtr == 0

kOverflowTinyPtr == 255

\* Bin::Bin(): cnt_ = 0, head_ = 1, bin_[i] = i + 2 for i = 0 .. kBinSize - 1.
NewBin == [cnt |-> 0, head |-> 1, bin |-> [i \in 0 .. kBinSize - 1 |-> i + 2]]

Full(b) == b.cnt = kBinSize

Count(b) == b.cnt

\* The loop of Bin::Insert, `while (tmp < threadholdIndex)`, from (tmp, prev).
\* ok = FALSE is the assert(0) of the loop body.
RECURSIVE InsertScan(_, _, _, _)
InsertScan(b, tmp, prevBinIndex, threadholdIndex) ==
    IF ~(tmp < threadholdIndex) THEN [ok |-> TRUE, tmp |-> tmp, prev |-> prevBinIndex]
    ELSE IF b.bin[tmp - 1] = b.head THEN [ok |-> FALSE, tmp |-> tmp, prev |-> prevBinIndex]
    ELSE InsertScan(b, b.bin[tmp - 1], tmp, threadholdIndex)

\* Bin::Insert(_, keyWidth), keyWidth in 1 .. 8.  Returns the new bin and the
\* slot (1 .. kBinSize) or kOverflowTinyPtr; ok = FALSE is a failed assert.
BinInsert(b, keyWidth) ==
    IF Full(b) THEN [bin |-> b, ok |-> TRUE, ptr |-> kOverflowTinyPtr]
    ELSE IF ~(keyWidth <= 8) THEN [bin |-> b, ok |-> FALSE, ptr |-> 0]
    ELSE
    LET tmp == b.head
        threadholdIndex == Pow2(keyWidth - 1)
    IN  IF keyWidth # 8 /\ tmp >= threadholdIndex
        THEN LET sc == InsertScan(b, tmp, b.head, threadholdIndex)
                 b1 == [b EXCEPT !.bin[sc.prev - 1] = b.bin[sc.tmp - 1], !.cnt = @ + 1]
             IN  IF ~sc.ok THEN [bin |-> b, ok |-> FALSE, ptr |-> 0]
                 ELSE [bin |-> b1, ok |-> b1.head <= 128 /\ b1.head # 0, ptr |-> sc.tmp]
        ELSE LET b1 == [b EXCEPT !.head = b.bin[b.head - 1], !.cnt = @ + 1]
             IN  [bin |-> b1, ok |-> b1.head <= 128 /\ b1.head # 0, ptr |-> tmp]

\* ptr ^ 0xFF on 8 bits
Xor255(ptr) == 255 - ptr

\* MemoryPo2CTable(n): binNum_ bins; hashBin_ are the two seeded hash
\* functions, here two maps from keys to bins fixed at construction.
NewPo2CTable(n, hashBin) ==
    LET binNum == (n + kBinSize - 1) \div kBinSize
    IN  [binNum |-> binNum, tab |-> [i \in 0 .. binNum - 1 |-> NewBin], hashBin |-> hashBin]

\* MemoryPo2CTable::Allocate.  ok = FALSE is a failed assert.
Po2CAllocate(t, key, keyWidth) ==
    LET hashbin == [i \in 0 .. 1 |-> t.hashBin[i][key]]
        flag == IF Count(t.tab[hashbin[0]]) > Count(t.tab[hashbin[1]]) THEN 1 ELSE 0
        ins == BinInsert(t.tab[hashbin[flag]], keyWidth)
        binIndex == t.hashBin[flag][key]
        frameNum == binIndex * kBinSize + ins.ptr - 1
        ptr == IF flag = 1 /\ ins.ptr # kOverflowTinyPtr THEN Xor255(ins.ptr) ELSE ins.ptr
    IN  IF ~ins.ok \/ ins.ptr = 0 \/ ptr = kOverflowTinyPtr \/ ptr = kNullTinyPtr
        THEN [table |-> t, ok |-> FALSE, ptr |-> 0, frame |-> 0]
        ELSE [table |-> [t EXCEPT !.tab[hashbin[flag]] = ins.bin],
              ok |-> TRUE, ptr |-> ptr, frame |-> frameNum]

\* A Query that takes the flag from ptr > 128, one off the encoding.
Po2CQueryFlagAbove128(t, key, ptr) ==
    LET flag == IF ptr > 128 THEN 1 ELSE 0
        p == IF flag = 1 THEN Xor255(ptr) ELSE ptr
        binIndex == t.hashBin[flag][key]
    IN  IF ptr = kOverflowTinyPtr \/ ptr = kNullTinyPtr
        THEN [ok |-> FALSE, frame |-> 0]
        ELSE [ok |-> TRUE, frame |-> binIndex * kBinSize + p - 1]

\* MemoryPo2CTable::Query.  ok = FALSE is a failed assert.
Po2CQuery(t, key, ptr) ==
    LET flag == IF ptr >= 128 THEN 1 ELSE 0
        p == IF flag = 1 THEN Xor255(ptr) ELSE ptr
        binIndex == t.hashBin[flag][key]
    IN  IF ptr = kOverflowTinyPtr \/ ptr = kNullTinyPtr
        THEN [ok |-> FALSE, frame |-> 0]
        ELSE [ok |-> TRUE, frame |-> binIndex * kBinSize + p - 1]

\* MosaicPhysicalMemory(memorySize): no frame is marked allocated.
NewMosaicPhysicalMemory(n, hashBin) ==
    [numFrames |-> n, allocatedFrames |-> 0, frameAllocated |-> {},
     po2cTable |-> NewPo2CTable(n, hashBin)]

\* MosaicPhysicalMemory::AllocateTinyPtrFrame.  how is "ok", or "aborted" for
\* a failed assert.  frameAllocated_ has numFrames bits; for a frame number
\* beyond them the read and the write are out of range, which is undefined:
\* oobBit is what the read yields, and a call that returns after such an
\* access has how = "outOfRange" (the run is not followed any further, the
\* contents of memory being unknown from then on).
MosaicAllocateTinyPtrFrame(m, key, keyWidth, oobBit) ==
    LET a == Po2CAllocate(m.po2cTable, key, keyWidth)
        inRange == a.frame < m.numFrames
        bit == IF inRange THEN a.frame \in m.frameAllocated ELSE oobBit
    IN  IF ~a.ok \/ bit
        THEN [mem |-> m, how |-> "aborted", ptr |-> 0, frame |-> 0]
        ELSE [mem |-> [m EXCEPT !.po2cTable = a.table,
                                !.frameAllocated = IF inRange THEN @ \cup {a.frame} ELSE @,
                                !.allocatedFrames = @ + 1],
              how |-> IF inRange THEN "ok" ELSE "outOfRange",
              ptr |-> a.ptr, frame |-> a.frame]

\* MosaicPhysicalMemory::AllocateFrame.  how = "exited" is exit(1).
MosaicAllocateFrame(m, key, keyWidth, oobBit) ==
    IF m.allocatedFrames >= m.numFrames
    THEN [mem |-> m, how |-> "exited", ptr |-> 0, frame |-> 0]
    ELSE MosaicAllocateTinyPtrFrame(m, key, keyWidth, oobBit)

\* MosaicPhysicalMemory::DecodeFrame
MosaicDecodeFrame(m, key, tinyPointer) == Po2CQuery(m.po2cTable, key, tinyPointer)

(***************************************************************************)
(* page_table.h: PageTable                                                 *)
(*                                                                         *)
(* The operators below work on a record s holding the PageTable object and *)
(* the PhysicalMemory it refers to.  s.status is "running" until the       *)
(* process ends: "exited" is exit(1) on memory exhaustion, "crashed" is a  *)
(* dereference of a null pageTables_ slot.  s.touched, s.consulted and     *)
(* s.learned are not program state: they log the page-table entries the    *)
(* current call has read, the structures it has looked up (in order, with  *)
(* the outcome) and the table frame numbers it has read from the entries.  *)
(***************************************************************************)
pgdEntryNum == Pow2(PgdBits)

pudEntryNum == Pow2(PudBits)

pmdEntryNum == Pow2(PmdBits)

pteEntryNum == Pow2(PteBits)

pteIndexShift == kPageShift

pmdShift == pteIndexShift + PteBits

pudShift == pmdShift + PmdBits

pgdShift == pudShift + PudBits

\* The constructor asserts pgdShift_ + log2(pgdEntryNum) == 48; VaBits is that
\* 48 in the scaled geometry, and VaBits - 1 the high bit (47) of every PWC.
VaBits == pgdShift + PgdBits

pgdEntryWidth == 8

\* PageTableEntry8B(): present(0), writable(0), user(0), pfn(0)
PageTableEntry8B == [present |-> FALSE, writable |-> FALSE, pfn |-> 0]

\* PageTablePage(): the page filled with zeros; entries8B indexed from 0.
MaxEntryNum ==
    LET ns == {pgdEntryNum, pudEntryNum, pmdEntryNum, pteEntryNum}
    IN  CHOOSE n \in ns : \A m \in ns : m <= n

PageTablePage == [i \in 0 .. MaxEntryNum - 1 |-> PageTableEntry8B]

PageTableLevelStats(tableSize) ==
    [accesses |-> 0, allocations |-> 0, entries |-> 0, size |-> tableSize]

TranslationStats ==
    [l1TlbHits |-> 0, l2TlbHits |-> 0, pmdCacheHits |-> 0, pudCacheHits |-> 0,
     pgdCacheHits |-> 0, fullWalks |-> 0, pageWalkMemAccess |-> 0,
     pteDataCacheHits |-> 0, pteDataCacheMisses |-> 0]

GetTotalTranslation(t) ==
    t.l1TlbHits + t.l2TlbHits + t.pmdCacheHits + t.pudCacheHits + t.pgdCacheHits + t.fullWalks

GetPgdIndex(vaddr) == LowBits(Shr(vaddr, pgdShift), PgdBits)

GetPudIndex(vaddr) == LowBits(Shr(vaddr, pudShift), PudBits)

GetPmdIndex(vaddr) == LowBits(Shr(vaddr, pmdShift), PmdBits)

GetPteIndex(vaddr) == LowBits(Shr(vaddr, pteIndexShift), PteBits)

GetOffset(vaddr) == LowBits(vaddr, kPageShift)

\* pageTables_[key] = std::make_unique<PageTablePage>(): the slot is created or
\* its page replaced by a zeroed one.
MapFreshPage(pt, key) ==
    [k \in (DOMAIN pt) \cup {key} |-> IF k = key THEN PageTablePage ELSE pt[k]]

NoPfn == 0 - 1

NothingLearned == [pud |-> NoPfn, pmd |-> NoPfn, pte |-> NoPfn]

Stop(s, how) == [s EXCEPT !.status = how]

Touch(s, addr, index) == [s EXCEPT !.touched = @ \cup {<<addr, index>>}]

\* The constructor: the TLBs and PWCs are empty, the root table is allocated
\* from the physical memory and cr3_ is its address.
NewPageTable(physMem, l1Sets, l1Ways, l2Sets, l2Ways, pwcSets, pwcWays) ==
    LET a == LinearAllocateFrame(physMem, 0)
        cr3 == a.frame * kMemTracePageSize
    IN  [pageTables |-> MapFreshPage(<<>>, cr3),
         cr3 |-> cr3,
         physMem |-> a.mem,
         l1Tlb |-> NewCache(l1Sets, l1Ways),
         l2Tlb |-> NewCache(l2Sets, l2Ways),
         pgdPwc |-> NewPwc(pwcSets, pwcWays, pgdShift, VaBits - 1),
         pudPwc |-> NewPwc(pwcSets, pwcWays, pudShift, VaBits - 1),
         pmdPwc |-> NewPwc(pwcSets, pwcWays, pmdShift, VaBits - 1),
         translationStats |-> TranslationStats,
         pgdStats |-> [PageTableLevelStats(pgdEntryNum) EXCEPT !.allocations = 1],
         pudStats |-> PageTableLevelStats(pudEntryNum),
         pmdStats |-> PageTableLevelStats(pmdEntryNum),
         pteStats |-> PageTableLevelStats(pteEntryNum),
         entryWidth |-> [pud |-> 8, pmd |-> 8, pte |-> 8],
         status |-> IF a.ok THEN "running" ELSE "exited",
         touched |-> {},
         consulted |-> <<>>,
         learned |-> NothingLearned,
         tinyPtrCalls |-> {}]

\* GetPudPfn: the PGD entry of the root table, its PUD table allocated on
\* first use.  Returns the new state and the PUD table's frame number.
GetPudPfn(s, pgdIndex) ==
    IF s.cr3 \notin DOMAIN s.pageTables THEN [s |-> Stop(s, "crashed"), pfn |-> 0]
    ELSE
    LET pgdEntry == s.pageTables[s.cr3][pgdIndex]
        pgdEntryAddr == s.cr3 + pgdIndex * pgdEntryWidth
        s0 == Touch(s, s.cr3, pgdIndex)
    IN  IF pgdEntry.present THEN [s |-> s0, pfn |-> pgdEntry.pfn]
        ELSE LET a == LinearAllocateFrame(s.physMem, pgdEntryAddr)
                 pudAddr == Shl(a.frame, kPageShift)
                 pt1 == [s.pageTables EXCEPT ![s.cr3][pgdIndex] =
                            [present |-> TRUE, writable |-> TRUE, pfn |-> a.frame]]
             IN  IF ~a.ok THEN [s |-> Stop(s0, "exited"), pfn |-> 0]
                 ELSE [s |-> [s0 EXCEPT !.physMem = a.mem,
                                        !.pageTables = MapFreshPage(pt1, pudAddr),
                                        !.pudStats.allocations = @ + 1,
                                        !.pgdStats.entries = @ + 1],
                       pfn |-> a.frame]

\* The widths the switch of GetPmdPfn, GetPtePfn and GetPhysFrame has a case
\* for; any other width is assert(false).
CaseWidths == {8, 4, 2, 1}

\* PhysicalMemory::AllocateTinyPtrFrame and PhysicalMemory::DecodeFrame:
\* assert(false), "should not be called".  ok = FALSE is the failed assert.
LinearAllocateTinyPtrFrame(m, key, keyWidth) ==
    [mem |-> m, ok |-> FALSE, ptr |-> 0, frame |-> 0]

LinearDecodeFrame(m, key, tinyPointer) == [ok |-> FALSE, frame |-> 0]

\* The bits of the tinyPointer bit-field of PageTableEntry4B, 2B and 1B.
TinyPointerBits(width) == IF width = 1 THEN 6 ELSE 8

\* The level statistics the three functions count a new child in.
ChildStats(level) == IF level = "pud" THEN "pmdStats" ELSE "pteStats"

OwnStats(level) ==
    IF level = "pud" THEN "pudStats" ELSE IF level = "pmd" THEN "pmdStats" ELSE "pteStats"

\* The branch of AllocatePmdIfNotPresent, AllocatePteIfNotPresent and
\* AllocatePhysFrameIfNotPresent for the entry types other than
\* PageTableEntry8B (4, 2 and 1 byte), on the entry at index of the table at
\* tableAddr.  An entry that is not present is marked present with control
\* bits 0, physMem_.AllocateTinyPtrFrame(tableAddr, 8) is called, the tiny
\* pointer is stored in the entry's bit-field and the page of the new frame
\* filed under pfn << kPageShift; then the entry is resolved by
\* physMem_.DecodeFrame(tableAddr, tinyPointer).  physMem_ is the
\* PhysicalMemory.  s.tinyPtrCalls is not program state: it logs the key of
\* these calls with the level, index and width of the entry they were made
\* for and the frame the allocation returned (NoPfn when it did not return).
AllocateNarrowIfNotPresent(s, level, tableAddr, index) ==
    LET entry == s.pageTables[tableAddr][index]
        s0 == Touch(s, tableAddr, index)
        a == LinearAllocateTinyPtrFrame(s.physMem, tableAddr, 8)
        call == [level |-> level, tableAddr |-> tableAddr, index |-> index,
                 entryWidth |-> s.entryWidth[level], key |-> tableAddr,
                 frame |-> IF a.ok THEN a.frame ELSE NoPfn]
        marked == [s.pageTables EXCEPT ![tableAddr][index] =
                      [present |-> TRUE, controlBits |-> 0, tinyPointer |-> 0]]
        stored == LowBits(a.ptr, TinyPointerBits(s.entryWidth[level]))
        filled == [marked EXCEPT ![tableAddr][index].tinyPointer = stored]
        s1 == IF entry.present THEN s0
              ELSE IF ~a.ok
              THEN Stop([s0 EXCEPT !.pageTables = marked,
                                   !.tinyPtrCalls = @ \cup {call}], "aborted")
              ELSE [s0 EXCEPT !.physMem = a.mem,
                              !.pageTables = MapFreshPage(filled, Shl(a.frame, kPageShift)),
                              ![ChildStats(level)].allocations = @ + 1,
                              ![OwnStats(level)].entries = @ + 1,
                              !.tinyPtrCalls = @ \cup {call}]
        d == LinearDecodeFrame(s1.physMem, tableAddr,
                               s1.pageTables[tableAddr][index].tinyPointer)
    IN  IF s1.status # "running" THEN [s |-> s1, pfn |-> 0]
        ELSE IF ~d.ok THEN [s |-> Stop(s1, "aborted"), pfn |-> 0]
        ELSE [s |-> s1, pfn |-> d.frame]

\* GetPmdPfn: the switch on pudEntryWidth_, then AllocatePmdIfNotPresent.
GetPmdPfn(sArg, pudIndexArg, pudAddrArg) ==
    LET switch[s \in {sArg}, pudIndex \in {pudIndexArg}, pudAddr \in {pudAddrArg}] ==
        IF s.entryWidth.pud \notin CaseWidths THEN [s |-> Stop(s, "aborted"), pfn |-> 0]
        ELSE IF pudAddr \notin DOMAIN s.pageTables THEN [s |-> Stop(s, "crashed"), pfn |-> 0]
        ELSE IF s.entryWidth.pud # 8 THEN AllocateNarrowIfNotPresent(s, "pud", pudAddr, pudIndex)
        ELSE
        LET pudEntry == s.pageTables[pudAddr][pudIndex]
            s0 == Touch(s, pudAddr, pudIndex)
        IN  IF pudEntry.present THEN [s |-> s0, pfn |-> pudEntry.pfn]
            ELSE LET a == LinearAllocateFrame(s.physMem, pudAddr)
                     pmdAddr == Shl(a.frame, kPageShift)
                     pt1 == [s.pageTables EXCEPT ![pudAddr][pudIndex] =
                                [present |-> TRUE, writable |-> TRUE, pfn |-> a.frame]]
                 IN  IF ~a.ok THEN [s |-> Stop(s0, "exited"), pfn |-> 0]
                     ELSE [s |-> [s0 EXCEPT !.physMem = a.mem,
                                            !.pageTables = MapFreshPage(pt1, pmdAddr),
                                            !.pmdStats.allocations = @ + 1,
                                            !.pudStats.entries = @ + 1],
                           pfn |-> a.frame]
    IN  switch[sArg, pudIndexArg, pudAddrArg]

\* GetPtePfn: the switch on pmdEntryWidth_, then AllocatePteIfNotPresent.
GetPtePfn(sArg, pmdIndexArg, pmdAddrArg) ==
    LET switch[s \in {sArg}, pmdIndex \in {pmdIndexArg}, pmdAddr \in {pmdAddrArg}] ==
        IF s.entryWidth.pmd \notin CaseWidths THEN [s |-> Stop(s, "aborted"), pfn |-> 0]
        ELSE IF pmdAddr \notin DOMAIN s.pageTables THEN [s |-> Stop(s, "crashed"), pfn |-> 0]
        ELSE IF s.entryWidth.pmd # 8 THEN AllocateNarrowIfNotPresent(s, "pmd", pmdAddr, pmdIndex)
        ELSE
        LET pmdEntry == s.pageTables[pmdAddr][pmdIndex]
            s0 == Touch(s, pmdAddr, pmdIndex)
        IN  IF pmdEntry.present THEN [s |-> s0, pfn |-> pmdEntry.pfn]
            ELSE LET a == LinearAllocateFrame(s.physMem, pmdAddr)
                     pteAddr == Shl(a.frame, kPageShift)
                     pt1 == [s.pageTables EXCEPT ![pmdAddr][pmdIndex] =
                                [present |-> TRUE, writable |-> TRUE, pfn |-> a.frame]]
                 IN  IF ~a.ok THEN [s |-> Stop(s0, "exited"), pfn |-> 0]
                     ELSE [s |-> [s0 EXCEPT !.physMem = a.mem,
                                            !.pageTables = MapFreshPage(pt1, pteAddr),
                                            !.pteStats.allocations = @ + 1,
                                            !.pmdStats.entries = @ + 1],
                           pfn |-> a.frame]
    IN  switch[sArg, pmdIndexArg, pmdAddrArg]

\* The key under which AllocatePhysFrameIfNotPresent<PageTableEntry8B> files
\* the page of a newly allocated data frame: pteEntry.pfn >> kPageShift.
DataPageKey(pfn) == Shr(pfn, kPageShift)

\* GetPhysFrame with AllocatePhysFrameIfNotPresent<PageTableEntry8B>.  The
\* entry is filled in, then pageTables_[DataPageKey] is given a fresh page and
\* the frame is read back through the reference pteEntry.  When the key is the
\* address of the very table that holds the entry, that table has just been
\* freed and the read is of freed memory: it yields the value just written
\* (stale = NoPfn) or whatever else the memory holds by then (stale).
GetPhysFrame(sArg, pteIndexArg, pteAddrArg, staleArg) ==
    LET switch[s \in {sArg}, pteIndex \in {pteIndexArg}, pteAddr \in {pteAddrArg}, stale \in {staleArg}] ==
        IF s.entryWidth.pte \notin CaseWidths THEN [s |-> Stop(s, "aborted"), pfn |-> 0]
        ELSE IF pteAddr \notin DOMAIN s.pageTables THEN [s |-> Stop(s, "crashed"), pfn |-> 0]
        ELSE IF s.entryWidth.pte # 8 THEN AllocateNarrowIfNotPresent(s, "pte", pteAddr, pteIndex)
        ELSE
        LET pteEntry == s.pageTables[pteAddr][pteIndex]
            s0 == Touch(s, pteAddr, pteIndex)
        IN  IF pteEntry.present THEN [s |-> s0, pfn |-> pteEntry.pfn]
            ELSE LET a == LinearAllocateFrame(s.physMem, pteAddr)
                     physFrame == DataPageKey(a.frame)
                     pt1 == [s.pageTables EXCEPT ![pteAddr][pteIndex] =
                                [present |-> TRUE, writable |-> TRUE, pfn |-> a.frame]]
                 IN  IF ~a.ok THEN [s |-> Stop(s0, "exited"), pfn |-> 0]
                     ELSE [s |-> [s0 EXCEPT !.physMem = a.mem,
                                            !.pageTables = MapFreshPage(pt1, physFrame),
                                            !.pteStats.allocations = @ + 1,
                                            !.pteStats.entries = @ + 1],
                           pfn |-> IF physFrame = pteAddr /\ stale # NoPfn THEN stale ELSE a.frame]
    IN  switch[sArg, pteIndexArg, pteAddrArg, staleArg]

Running(s) == s.status = "running"

\* A PhysAddr that forgets the offset: the address of the frame.
PhysAddrOfFrame(pfn, offset) == Shl(pfn, kPageShift)

\* (pfn << kPageShift) | offset, the offset being below the page size
PhysAddr(pfn, offset) == Shl(pfn, kPageShift) + offset

\* CompletePmdCacheHit: from the PTE table to the physical address.  With
\* isPteCachable_ off no data-cache lookup is made and hit stays false.
\* In this and the next three operators r is what the Get... call returned,
\* bound once, and the value chosen is the one the function returns.
CompletePmdCacheHit(s, vaddr, pteTablePfn, stale) ==
    CHOOSE c \in
        {IF ~Running(r.s) THEN [s |-> r.s, paddr |-> 0]
         ELSE [s |-> [r.s EXCEPT !.translationStats.pageWalkMemAccess = @ + 1,
                                 !.pteStats.accesses = @ + 1],
               paddr |-> PhysAddr(r.pfn, GetOffset(vaddr))] :
         r \in {GetPhysFrame(s, GetPteIndex(vaddr), Shl(pteTablePfn, kPageShift), stale)}} :
        TRUE

\* CompletePudCacheHit: from the PMD table on.
CompletePudCacheHit(s, vaddr, pmdTablePfn, stale) ==
    CHOOSE c \in
        {IF ~Running(r.s) THEN [s |-> r.s, paddr |-> 0]
         ELSE CompletePmdCacheHit(
                  [r.s EXCEPT !.translationStats.pageWalkMemAccess = @ + 1,
                              !.pmdStats.accesses = @ + 1,
                              !.pmdPwc = PwcInsert(@, vaddr, r.pfn),
                              !.learned.pte = r.pfn],
                  vaddr, r.pfn, stale) :
         r \in {GetPtePfn(s, GetPmdIndex(vaddr), Shl(pmdTablePfn, kPageShift))}} :
        TRUE

\* CompletePgdCacheHit: from the PUD table on.
CompletePgdCacheHit(s, vaddr, pudTablePfn, stale) ==
    CHOOSE c \in
        {IF ~Running(r.s) THEN [s |-> r.s, paddr |-> 0]
         ELSE CompletePudCacheHit(
                  [r.s EXCEPT !.translationStats.pageWalkMemAccess = @ + 1,
                              !.pudStats.accesses = @ + 1,
                              !.pudPwc = PwcInsert(@, vaddr, r.pfn),
                              !.learned.pmd = r.pfn],
                  vaddr, r.pfn, stale) :
         r \in {GetPmdPfn(s, GetPudIndex(vaddr), Shl(pudTablePfn, kPageShift))}} :
        TRUE

\* CompleteFullWalk: from the root table on.
CompleteFullWalk(s, vaddr, stale) ==
    CHOOSE c \in
        {IF ~Running(r.s) THEN [s |-> r.s, paddr |-> 0]
         ELSE CompletePgdCacheHit(
                  [r.s EXCEPT !.translationStats.pageWalkMemAccess = @ + 1,
                              !.pgdStats.accesses = @ + 1,
                              !.pgdPwc = PwcInsert(@, vaddr, r.pfn),
                              !.learned.pud = r.pfn],
                  vaddr, r.pfn, stale) :
         r \in {GetPudPfn(s, GetPgdIndex(vaddr))}} :
        TRUE

Consult(s, what, hit) == [s EXCEPT !.consulted = Append(@, <<what, hit>>)]

\* An UpdateTlbs that fills the L2 TLB only.
UpdateL2TlbOnly(c, vpn, path) ==
    IF ~Running(c.s) THEN [s |-> c.s, paddr |-> 0, path |-> path]
    ELSE LET pfn == Shr(c.paddr, kPageShift)
         IN  [s |-> [c.s EXCEPT !.l2Tlb = TlbInsert(@, vpn, pfn)],
              paddr |-> c.paddr, path |-> path]

\* An UpdateTlbs that fills the L1 TLB only.
UpdateL1TlbOnly(c, vpn, path) ==
    IF ~Running(c.s) THEN [s |-> c.s, paddr |-> 0, path |-> path]
    ELSE LET pfn == Shr(c.paddr, kPageShift)
         IN  [s |-> [c.s EXCEPT !.l1Tlb = TlbInsert(@, vpn, pfn)],
              paddr |-> c.paddr, path |-> path]

\* The end of the four walking branches of Translate: both TLBs are given the
\* translation.  c is what the Complete... call returned.
UpdateTlbs(c, vpn, path) ==
    IF ~Running(c.s) THEN [s |-> c.s, paddr |-> 0, path |-> path]
    ELSE LET pfn == Shr(c.paddr, kPageShift)
         IN  [s |-> [c.s EXCEPT !.l1Tlb = TlbInsert(@, vpn, pfn),
                                !.l2Tlb = TlbInsert(@, vpn, pfn)],
              paddr |-> c.paddr, path |-> path]

\* A CountPath whose PUD-PWC branch lacks its increment.
CountPathButPudHits(s, counter) ==
    IF counter = "pudCacheHits" THEN s
    ELSE [s EXCEPT !.translationStats[counter] = @ + 1]

\* translationStats_.<counter>++
CountPath(s, counter) == [s EXCEPT !.translationStats[counter] = @ + 1]

\* A TranslateWalk that looks in the PUD-PWC before the PMD-PWC.
TranslateWalkPudFirst(s, vaddr, stale) ==
    LET vpn == Shr(vaddr, kPageShift)
        pud == PwcLookup(s.pudPwc, vaddr)
        sC == Consult([s EXCEPT !.pudPwc = pud.pwc], "pudPwc", pud.hit)
        pmd == PwcLookup(sC.pmdPwc, vaddr)
        sD == Consult([sC EXCEPT !.pmdPwc = pmd.pwc], "pmdPwc", pmd.hit)
        pgd == PwcLookup(sD.pgdPwc, vaddr)
        sE == Consult([sD EXCEPT !.pgdPwc = pgd.pwc], "pgdPwc", pgd.hit)
    IN  IF pud.hit
        THEN UpdateTlbs(CompletePudCacheHit(CountPath(sC, "pudCacheHits"),
                                            vaddr, pud.value, stale),
                        vpn, "pudPwc")
        ELSE IF pmd.hit
        THEN UpdateTlbs(CompletePmdCacheHit(CountPath(sD, "pmdCacheHits"),
                                            vaddr, pmd.value, stale),
                        vpn, "pmdPwc")
        ELSE IF pgd.hit
        THEN UpdateTlbs(CompletePgdCacheHit(CountPath(sE, "pgdCacheHits"),
                                            vaddr, pgd.value, stale),
                        vpn, "pgdPwc")
        ELSE UpdateTlbs(CompleteFullWalk(CountPath(sE, "fullWalks"), vaddr, stale),
                        vpn, "fullWalk")

\* PageTable::Translate after both TLBs have missed: the three page-walk
\* caches in turn, then the full walk.
TranslateWalk(s, vaddr, stale) ==
    LET vpn == Shr(vaddr, kPageShift)
        pmd == PwcLookup(s.pmdPwc, vaddr)
        sC == Consult([s EXCEPT !.pmdPwc = pmd.pwc], "pmdPwc", pmd.hit)
        pud == PwcLookup(sC.pudPwc, vaddr)
        sD == Consult([sC EXCEPT !.pudPwc = pud.pwc], "pudPwc", pud.hit)
        pgd == PwcLookup(sD.pgdPwc, vaddr)
        sE == Consult([sD EXCEPT !.pgdPwc = pgd.pwc], "pgdPwc", pgd.hit)
    IN  IF pmd.hit
        THEN UpdateTlbs(CompletePmdCacheHit(CountPath(sC, "pmdCacheHits"),
                                            vaddr, pmd.value, stale),
                        vpn, "pmdPwc")
        ELSE IF pud.hit
        THEN UpdateTlbs(CompletePudCacheHit(CountPath(sD, "pudCacheHits"),
                                            vaddr, pud.value, stale),
                        vpn, "pudPwc")
        ELSE IF pgd.hit
        THEN UpdateTlbs(CompletePgdCacheHit(CountPath(sE, "pgdCacheHits"),
                                            vaddr, pgd.value, stale),
                        vpn, "pgdPwc")
        ELSE UpdateTlbs(CompleteFullWalk(CountPath(sE, "fullWalks"), vaddr, stale),
                        vpn, "fullWalk")

\* PageTable::Translate.  Returns the new state, the physical address and the
\* path that served the call.
Translate(s, vaddr, stale) ==
    LET vpn == Shr(vaddr, kPageShift)
        offset == GetOffset(vaddr)
        l1 == TlbLookup(s.l1Tlb, vpn)
        sA == Consult([s EXCEPT !.l1Tlb = l1.cache, !.touched = {},
                                !.consulted = <<>>, !.learned = NothingLearned],
                      "l1Tlb", l1.hit)
        l2 == TlbLookup(sA.l2Tlb, vpn)
        sB == Consult([sA EXCEPT !.l2Tlb = l2.cache], "l2Tlb", l2.hit)
    IN  IF l1.hit
        THEN [s |-> CountPath(sA, "l1TlbHits"),
              paddr |-> PhysAddr(l1.value, offset), path |-> "l1Tlb"]
        ELSE IF l2.hit
        THEN [s |-> [CountPath(sB, "l2TlbHits") EXCEPT
                        !.l1Tlb = TlbInsert(@, vpn, l2.value)],
              paddr |-> PhysAddr(l2.value, offset), path |-> "l2Tlb"]
        ELSE TranslateWalk(sB, vaddr, stale)

(***************************************************************************)
(* data_cache.h: DataCache and CacheHierarchy                              *)
(*                                                                         *)
(* A hierarchy h holds its three DataCache objects in h.caches[1 .. 3]     *)
(* (l1Cache_, l2Cache_, l3Cache_; nextLevel_ of level i is level i + 1,    *)
(* and null for level 3), memAccessCount, and the four data-cache counters *)
(* of the TranslationStats it is handed.  h.status is "running" until the  *)
(* assert of Access fails ("aborted").  writeInserts is not program state: *)
(* it counts the Insert calls with isWrite set that a cache has received.  *)
(* Nor are h.modified, the lines written by an access (an Insert of L1     *)
(* with isWrite set) and not written back to main memory by L3 since, and  *)
(* h.writtenBack, the lines L3 has written back to main memory during the  *)
(* current call of Access or TranslateLookup.                              *)
(***************************************************************************)
RECURSIVE BitAnd(_, _)
BitAnd(a, b) ==
    IF a = 0 \/ b = 0 THEN 0
    ELSE (a % 2) * (b % 2) + 2 * BitAnd(a \div 2, b \div 2)

\* DataCache(name, totalSize, associativity, lineSize), given by its number
\* of sets, its ways and log2 of its line size.
NewDataCache(numSets, ways, offsetBits) ==
    [cache |-> NewCache(numSets, ways), offsetBits |-> offsetBits,
     readAccesses |-> 0, readHits |-> 0, writeAccesses |-> 0, writeHits |-> 0,
     writebacks |-> 0, coldMisses |-> 0, capacityMisses |-> 0, conflictMisses |-> 0,
     writeInserts |-> 0]

\* DataCache::GetSetIndex: tag & (numSets_ - 1)
DcGetSetIndex(dc, tag) == BitAnd(tag, dc.cache.numSets - 1)

GetAllMisses(dc) == dc.coldMisses + dc.capacityMisses + dc.conflictMisses

NewCacheHierarchy(l1, l2, l3) ==
    [caches |-> <<l1, l2, l3>>, memAccessCount |-> 0,
     l2DataCacheAccess |-> 0, l2DataCacheHits |-> 0,
     l3DataCacheAccess |-> 0, l3DataCacheHits |-> 0,
     status |-> "running", modified |-> {}, writtenBack |-> {}]

RECURSIVE DcInsert(_, _, _, _, _)
RECURSIVE HandleEviction(_, _, _, _)
\* A HandleEviction that hands the block to the next level as a clean one.
HandleEvictionClean(h, level, tag, value) ==
    LET h1 == [h EXCEPT !.caches[level].writebacks = @ + 1]
    IN  IF level < 3 THEN DcInsert(h1, level + 1, tag, value, FALSE)
        ELSE [h1 EXCEPT !.memAccessCount = @ + 1,
                        !.modified = @ \ {tag}, !.writtenBack = @ \cup {tag}]

\* A HandleEviction whose write-back of L3 is not counted as a memory access.
HandleEvictionMemoryUncounted(h, level, tag, value) ==
    LET h1 == [h EXCEPT !.caches[level].writebacks = @ + 1]
    IN  IF level < 3 THEN DcInsert(h1, level + 1, tag, value, TRUE)
        ELSE [h1 EXCEPT !.modified = @ \ {tag}, !.writtenBack = @ \cup {tag}]

\* A HandleEviction that counts the write-back and drops the block.
HandleEvictionDropped(h, level, tag, value) ==
    [h EXCEPT !.caches[level].writebacks = @ + 1]

\* DataCache::HandleEviction of level `level` for a dirty victim: the block
\* goes to the next level under the tag it had in this one, or to memory.
HandleEviction(h, level, tag, value) ==
    LET h1 == [h EXCEPT !.caches[level].writebacks = @ + 1]
    IN  IF level < 3
        THEN DcInsert(h1, level + 1, tag, value, TRUE)
        ELSE [h1 EXCEPT !.memAccessCount = @ + 1,
                        !.modified = @ \ {tag}, !.writtenBack = @ \cup {tag}]

\* A DcInsert that calls the eviction hook for every valid victim.
DcInsertHookOnValid(h, level, tag, value, isWrite) ==
    LET dc == h.caches[level]
        setIndex == DcGetSetIndex(dc, tag)
        absent == MatchingWays(dc.cache, setIndex, tag) = {}
        old == dc.cache.sets[setIndex][FindLruWay(dc.cache, setIndex)]
        r == Insert(dc.cache, setIndex, tag, value, isWrite)
        h1 == [h EXCEPT !.caches[level].cache = r.cache,
                        !.caches[level].writeInserts = @ + (IF isWrite THEN 1 ELSE 0),
                        !.modified = IF level = 1 /\ isWrite THEN @ \cup {tag} ELSE @]
    IN  IF absent /\ old.valid THEN HandleEviction(h1, level, old.tag, old.value)
        ELSE h1

\* SetAssociativeCache::Insert on the cache of level `level`, with the
\* eviction hook of DataCache.
DcInsert(h, level, tag, value, isWrite) ==
    LET dc == h.caches[level]
        r == Insert(dc.cache, DcGetSetIndex(dc, tag), tag, value, isWrite)
        h1 == [h EXCEPT !.caches[level].cache = r.cache,
                        !.caches[level].writeInserts = @ + (IF isWrite THEN 1 ELSE 0),
                        !.modified = IF level = 1 /\ isWrite THEN @ \cup {tag} ELSE @]
    IN  IF r.evict THEN HandleEviction(h1, level, r.evictTag, r.evictValue)
        ELSE h1

\* A DataCache::Lookup that leaves the hits of writes out of writeHits.
DcLookupWriteHitsLost(h, level, tag, isWrite) ==
    LET dc == h.caches[level]
        setIndex == DcGetSetIndex(dc, tag)
        r == Lookup(dc.cache, setIndex, tag)
        n == IF r.hit THEN 1 ELSE 0
        d1 == IF isWrite
              THEN [dc EXCEPT !.cache = r.cache, !.writeAccesses = @ + 1]
              ELSE [dc EXCEPT !.cache = r.cache, !.readAccesses = @ + 1,
                              !.readHits = @ + n]
    IN  [h |-> [h EXCEPT !.caches[level] = d1], hit |-> r.hit, value |-> r.value]

\* DataCache::Lookup(tag, value, isWrite): the base lookup, the read/write
\* split and the classification of a miss.
DcLookup(h, level, tag, isWrite) ==
    LET dc == h.caches[level]
        setIndex == DcGetSetIndex(dc, tag)
        r == Lookup(dc.cache, setIndex, tag)
        n == IF r.hit THEN 1 ELSE 0
        d1 == IF isWrite
              THEN [dc EXCEPT !.cache = r.cache, !.writeAccesses = @ + 1,
                              !.writeHits = @ + n]
              ELSE [dc EXCEPT !.cache = r.cache, !.readAccesses = @ + 1,
                              !.readHits = @ + n]
        d2 == IF r.hit THEN d1
              ELSE IF r.cache.globalLruCounter < r.cache.numSets * r.cache.numWays
              THEN [d1 EXCEPT !.coldMisses = @ + 1]
              ELSE IF FindLruWay(r.cache, setIndex) # 0
              THEN [d1 EXCEPT !.capacityMisses = @ + 1]
              ELSE [d1 EXCEPT !.conflictMisses = @ + 1]
    IN  [h |-> [h EXCEPT !.caches[level] = d2], hit |-> r.hit, value |-> r.value]

\* The assert of CacheHierarchy::Access
MemCountAsserted(h) ==
    h.caches[3].cache.accesses - h.caches[3].cache.hits + h.caches[3].writebacks
        = h.memAccessCount

\* CacheHierarchy::Access(paddr, value, isWrite).  Returns the hierarchy and
\* the hit flag.
Access(h, paddr, value, isWrite) ==
    LET l1CacheTag == Shr(paddr, h.caches[1].offsetBits)
        l2CacheTag == Shr(paddr, h.caches[2].offsetBits)
        l3CacheTag == Shr(paddr, h.caches[3].offsetBits)
        a1 == DcLookup([h EXCEPT !.writtenBack = {}], 1, l1CacheTag, isWrite)
        a2 == DcLookup(a1.h, 2, l2CacheTag, isWrite)
        a3 == DcLookup(a2.h, 3, l3CacheTag, isWrite)
    IN  IF a1.hit
        THEN [h |-> IF isWrite THEN DcInsert(a1.h, 1, l1CacheTag, a1.value, isWrite)
                    ELSE a1.h,
              hit |-> TRUE]
        ELSE IF a2.hit
        THEN LET f1 == DcInsert(a2.h, 1, l1CacheTag, a2.value, isWrite)
             IN  [h |-> IF isWrite THEN DcInsert(f1, 2, l1CacheTag, a2.value, isWrite)
                        ELSE f1,
                  hit |-> TRUE]
        ELSE IF a3.hit
        THEN LET f3 == IF isWrite THEN DcInsert(a3.h, 3, l1CacheTag, a3.value, isWrite)
                       ELSE a3.h
                 f2 == DcInsert(f3, 2, l2CacheTag, a3.value, FALSE)
             IN  [h |-> DcInsert(f2, 1, l1CacheTag, a3.value, isWrite), hit |-> TRUE]
        ELSE LET m == [a3.h EXCEPT !.memAccessCount = @ + 1]
                 f3 == DcInsert(m, 3, l3CacheTag, value, FALSE)
                 f2 == DcInsert(f3, 2, l2CacheTag, value, FALSE)
             IN  IF ~MemCountAsserted(m)
                 THEN [h |-> [m EXCEPT !.status = "aborted"], hit |-> FALSE]
                 ELSE [h |-> DcInsert(f2, 1, l1CacheTag, value, isWrite), hit |-> FALSE]

\* A TranslateLookup that does not count its access to main memory.
TranslateLookupUncounted(h, paddr, value) ==
    LET l2CacheTag == Shr(paddr, h.caches[2].offsetBits)
        l3CacheTag == Shr(paddr, h.caches[3].offsetBits)
        a2 == DcLookup([h EXCEPT !.l2DataCacheAccess = @ + 1, !.writtenBack = {}],
                       2, l2CacheTag, FALSE)
        a3 == DcLookup([a2.h EXCEPT !.l3DataCacheAccess = @ + 1], 3, l3CacheTag, FALSE)
    IN  IF a2.hit
        THEN [h |-> [a2.h EXCEPT !.l2DataCacheHits = @ + 1], hit |-> TRUE]
        ELSE IF a3.hit
        THEN [h |-> DcInsert([a3.h EXCEPT !.l3DataCacheHits = @ + 1],
                             2, l2CacheTag, a3.value, FALSE),
              hit |-> TRUE]
        ELSE LET f3 == DcInsert(a3.h, 3, l3CacheTag, value, FALSE)
             IN  [h |-> DcInsert(f3, 2, l2CacheTag, value, FALSE), hit |-> FALSE]

\* A TranslateLookup that fills L1 as well after a miss in L2 and L3.
TranslateLookupFillsL1(h, paddr, value) ==
    LET l2CacheTag == Shr(paddr, h.caches[2].offsetBits)
        l3CacheTag == Shr(paddr, h.caches[3].offsetBits)
        a2 == DcLookup([h EXCEPT !.l2DataCacheAccess = @ + 1, !.writtenBack = {}],
                       2, l2CacheTag, FALSE)
        a3 == DcLookup([a2.h EXCEPT !.l3DataCacheAccess = @ + 1], 3, l3CacheTag, FALSE)
    IN  IF a2.hit
        THEN [h |-> [a2.h EXCEPT !.l2DataCacheHits = @ + 1], hit |-> TRUE]
        ELSE IF a3.hit
        THEN [h |-> DcInsert([a3.h EXCEPT !.l3DataCacheHits = @ + 1],
                             2, l2CacheTag, a3.value, FALSE),
              hit |-> TRUE]
        ELSE LET m == [a3.h EXCEPT !.memAccessCount = @ + 1]
                 f3 == DcInsert(m, 3, l3CacheTag, value, FALSE)
                 f2 == DcInsert(f3, 2, l2CacheTag, value, FALSE)
             IN  [h |-> DcInsert(f2, 1, Shr(paddr, h.caches[1].offsetBits), value, FALSE),
                  hit |-> FALSE]

\* CacheHierarchy::TranslateLookup(paddr, value, translationStats): from L2
\* down, as reads.
TranslateLookup(h, paddr, value) ==
    LET l2CacheTag == Shr(paddr, h.caches[2].offsetBits)
        l3CacheTag == Shr(paddr, h.caches[3].offsetBits)
        a2 == DcLookup([h EXCEPT !.l2DataCacheAccess = @ + 1, !.writtenBack = {}],
                       2, l2CacheTag, FALSE)
        a3 == DcLookup([a2.h EXCEPT !.l3DataCacheAccess = @ + 1], 3, l3CacheTag, FALSE)
    IN  IF a2.hit
        THEN [h |-> [a2.h EXCEPT !.l2DataCacheHits = @ + 1], hit |-> TRUE]
        ELSE IF a3.hit
        THEN [h |-> DcInsert([a3.h EXCEPT !.l3DataCacheHits = @ + 1],
                             2, l2CacheTag, a3.value, FALSE),
              hit |-> TRUE]
        ELSE LET m == [a3.h EXCEPT !.memAccessCount = @ + 1]
                 f3 == DcInsert(m, 3, l3CacheTag, value, FALSE)
             IN  [h |-> DcInsert(f3, 2, l2CacheTag, value, FALSE), hit |-> FALSE]

(***************************************************************************)
(* The simulator as a state machine                                        *)
(***************************************************************************)
VARIABLES
    pt,           \* the PageTable, the PhysicalMemory it refers to, the status
    numCalls,     \* history: Translate calls that have returned
    last,         \* history: the last Translate call that returned
    firstResult,  \* history: vaddr -> the address its first call returned
    everTouched,  \* history: the entries read by any call that returned
    memKind,      \* the allocator under test: "linear", "mosaic" or "po2c"
    mem,          \* that PhysicalMemory, MosaicPhysicalMemory or MemoryPo2CTable
    memStatus,    \* "running", "exited" (exit(1)), "aborted" (failed assert)
                  \* or "outOfRange" (past an out-of-range bitmap access)
    lastAlloc,    \* history: the last allocation that returned
    returned,     \* history: the frame numbers returned before the last one
    numAllocs,    \* history: allocations that have returned
    pwc,          \* a PageWalkCache driven on its own
    pwcLog,       \* history: its last insert and the lookups made since
    hier,         \* a CacheHierarchy driven on its own
    hierLog,      \* history: the calls made on it and the last one
    sac,          \* a SetAssociativeCache driven on its own, and which of the
                  \* two classes of cache.h it is: "current" or "older"
    sacLog        \* history: the calls made on it, the last one, the entry
                  \* it replaced, and the call that last touched each tag

ptVars == <<pt, numCalls, last, firstResult, everTouched>>

allocVars == <<memKind, mem, memStatus, lastAlloc, returned, numAllocs>>

pwcVars == <<pwc, pwcLog>>

hierVars == <<hier, hierLog>>

sacVars == <<sac, sacLog>>

vars == <<pt, numCalls, last, firstResult, everTouched,
          memKind, mem, memStatus, lastAlloc, returned, numAllocs,
          pwc, pwcLog, hier, hierLog, sac, sacLog>>

\* The virtual addresses the driver may supply: pages given by their four
\* table indexes, and an offset within the page.
MakeVaddr(pgd, pud, pmd, pte, offset) ==
    Shl(pgd, pgdShift) + Shl(pud, pudShift) + Shl(pmd, pmdShift)
        + Shl(pte, pteIndexShift) + offset

Vaddrs ==
    {MakeVaddr(0, 0, 0, 0, kPageMask), MakeVaddr(0, 0, 0, 1, 1),
     MakeVaddr(0, 0, 1, 0, 0), MakeVaddr(0, 1, 0, 0, kPageMask - 1),
     MakeVaddr(1, 0, 0, 0, 1), MakeVaddr(2, 0, 0, 0, 0), MakeVaddr(3, 0, 0, 0, kPageMask)}

NoAddr == 0 - 1

StaleReads == {NoPfn, 0}

NoCall ==
    [vaddr |-> NoAddr, paddr |-> NoAddr, path |-> "none", consulted |-> <<>>,
     touched |-> {}, learned |-> NothingLearned]

NoAlloc == [key |-> 0, ptr |-> 0, frame |-> NoPfn]

PageTableInit ==
    /\ pt = NewPageTable(NewPhysicalMemory(NumFrames), 1, L1TlbWays,
                         L2TlbSets, L2TlbWays, 1, PwcWays)
    /\ numCalls = 0
    /\ last = NoCall
    /\ firstResult = [v \in Vaddrs |-> NoAddr]
    /\ everTouched = {}

\* The keys (addresses of page-table entries) and key widths handed to the
\* allocator under test.
AllocKeys == {0, 8}

KeyWidths == {8, 6}

\* The two seeded hash functions, as maps from the keys to the bins.  The
\* seeds are drawn from the clock at construction.  In the first choice one
\* key has the first and the last bin as candidates and the other key the
\* last bin twice; the second choice is the first with the bins exchanged;
\* in the third the candidates of both keys are the first two bins, in
\* opposite orders.
HashChoices(n) ==
    LET binNum == (n + kBinSize - 1) \div kBinSize
        lastBin == binNum - 1
        second == IF binNum > 1 THEN 1 ELSE 0
        Hash(a0, a1, b0, b1) ==
            [i \in 0 .. 1 |-> [key \in AllocKeys |->
                IF key = 0 THEN (IF i = 0 THEN a0 ELSE a1)
                           ELSE (IF i = 0 THEN b0 ELSE b1)]]
    IN  {Hash(0, lastBin, lastBin, lastBin),
         Hash(lastBin, 0, 0, 0),
         Hash(0, second, second, 0)}

MemoryInit(kinds) ==
    /\ memKind \in kinds
    /\ \/ memKind = "linear" /\ mem = NewPhysicalMemory(NumFrames)
       \/ /\ memKind = "mosaic"
          /\ \E h \in HashChoices(MosaicFrames) :
                mem = NewMosaicPhysicalMemory(MosaicFrames, h)
       \/ /\ memKind = "po2c"
          /\ \E h \in HashChoices(Po2CFrames) :
                mem = NewPo2CTable(Po2CFrames, h)
    /\ memStatus = "running"
    /\ lastAlloc = NoAlloc
    /\ returned = {}
    /\ numAllocs = 0

NoInsert == [vaddr |-> NoAddr, pfn |-> NoPfn, lookups |-> 0, ops |-> 0]

\* A PageWalkCache as the page table constructs its three: one per level, the
\* tag running from the level's shift to the top bit of the address.
PwcInit(lowBits) ==
    /\ \E lowBit \in lowBits : pwc = NewPwc(1, PwcWays, lowBit, VaBits - 1)
    /\ pwcLog = NoInsert

NoAccess == [ops |-> 0, kind |-> "none", paddr |-> 0, isWrite |-> FALSE, hit |-> FALSE]

\* The three caches with equal line sizes, L1 the smallest.
HierInit ==
    /\ hier = NewCacheHierarchy(NewDataCache(DcNumSets, DcL1Ways, DcLineBits),
                                NewDataCache(DcNumSets, DcL2Ways, DcLineBits),
                                NewDataCache(DcNumSets, DcL3Ways, DcLineBits))
    /\ hierLog = NoAccess

\* The tags a SetAssociativeCache is driven with: three of set 0, one more.
SacTags == {0, 1, SacSets, 2 * SacSets}

NoSacCall ==
    [ops |-> 0, op |-> "none", tag |-> 0, value |-> 0, isWrite |-> FALSE,
     hit |-> FALSE, hook |-> FALSE, replaced |-> CacheEntry, way |-> 0,
     touch |-> [tag \in SacTags |-> 0]]

SacInit(kinds) ==
    /\ \E kind \in kinds : sac = [kind |-> kind, cache |-> NewCache(SacSets, SacWays)]
    /\ sacLog = NoSacCall

\* Spec: the page table over its linear physical memory, driven by a trace.
Init == PageTableInit /\ MemoryInit({"linear"}) /\ PwcInit({pgdShift}) /\ HierInit /\ SacInit({"current"})

\* One reference of the trace: PageTable::Translate(vaddr).
TranslateCall(vaddr) ==
    /\ Running(pt)
    /\ numCalls < MaxRefs
    /\ \E stale \in StaleReads :
          LET r == Translate(pt, vaddr, stale)
          IN  /\ pt' = r.s
              /\ IF Running(r.s)
                 THEN /\ numCalls' = numCalls + 1
                      /\ last' = [vaddr |-> vaddr, paddr |-> r.paddr, path |-> r.path,
                                  consulted |-> r.s.consulted, touched |-> r.s.touched,
                                  learned |-> r.s.learned]
                      /\ firstResult' = IF firstResult[vaddr] = NoAddr
                                        THEN [firstResult EXCEPT ![vaddr] = r.paddr]
                                        ELSE firstResult
                      /\ everTouched' = everTouched \cup r.s.touched
                 ELSE UNCHANGED <<numCalls, last, firstResult, everTouched>>
    /\ UNCHANGED <<allocVars, pwcVars, hierVars, sacVars>>

Next == \E vaddr \in Vaddrs : TranslateCall(vaddr)

Spec == Init /\ [][Next]_vars

\* SpecAlloc: an allocator of any kind, driven through its interface: the
\* two physical memories through BasePhysicalMemory, the table of the
\* tiny-pointer allocator through MemoryPo2CTable::Allocate.
InitAlloc ==
    /\ PageTableInit /\ MemoryInit({"linear", "mosaic", "po2c"})
    /\ PwcInit({pgdShift}) /\ HierInit /\ SacInit({"current"})

\* What an allocation call leaves behind: r is [mem, how, ptr, frame].
AllocReturns(key, r) ==
    /\ memStatus' = IF r.how = "ok" THEN "running" ELSE r.how
    /\ mem' = r.mem
    /\ IF r.how \in {"ok", "outOfRange"}
       THEN /\ lastAlloc' = [key |-> key, ptr |-> r.ptr, frame |-> r.frame]
            /\ returned' = returned \cup (IF lastAlloc.frame = NoPfn THEN {}
                                          ELSE {lastAlloc.frame})
            /\ numAllocs' = numAllocs + 1
       ELSE UNCHANGED <<lastAlloc, returned, numAllocs>>
    /\ UNCHANGED <<memKind, ptVars, pwcVars, hierVars, sacVars>>

\* BasePhysicalMemory::AllocateFrame(key, keyWidth)
AllocateFrame(key, keyWidth) ==
    /\ memStatus = "running"
    /\ memKind \in {"linear", "mosaic"}
    /\ IF memKind = "linear"
       THEN LET a == LinearAllocateFrame(mem, key)
            IN  AllocReturns(key,
                             [mem |-> a.mem, how |-> IF a.ok THEN "ok" ELSE "exited",
                              ptr |-> 0, frame |-> a.frame])
       ELSE \E oobBit \in BOOLEAN :
               AllocReturns(key,
                            MosaicAllocateFrame(mem, key, keyWidth, oobBit))

\* BasePhysicalMemory::AllocateTinyPtrFrame(key, keyWidth); the linear memory
\* has assert(false) for it.
AllocateTinyPtrFrame(key, keyWidth) ==
    /\ memStatus = "running"
    /\ memKind \in {"linear", "mosaic"}
    /\ IF memKind = "linear"
       THEN AllocReturns(key,
                         [mem |-> mem, how |-> "aborted", ptr |-> 0, frame |-> 0])
       ELSE \E oobBit \in BOOLEAN :
               AllocReturns(key,
                            MosaicAllocateTinyPtrFrame(mem, key, keyWidth, oobBit))

\* MemoryPo2CTable::Allocate(key, keyWidth)
Allocate(key, keyWidth) ==
    /\ memStatus = "running"
    /\ memKind = "po2c"
    /\ LET a == Po2CAllocate(mem, key, keyWidth)
       IN  AllocReturns(key,
                        [mem |-> a.table, how |-> IF a.ok THEN "ok" ELSE "aborted",
                         ptr |-> a.ptr, frame |-> a.frame])

NextAlloc ==
    \E key \in AllocKeys, keyWidth \in KeyWidths :
        \/ AllocateFrame(key, keyWidth)
        \/ AllocateTinyPtrFrame(key, keyWidth)
        \/ Allocate(key, keyWidth)

SpecAlloc == InitAlloc /\ [][NextAlloc]_vars

(***************************************************************************)
(* SpecExhaust: a physical memory of few frames, linear or tiny-pointer,   *)
(* asked for frames until it has none left                                 *)
(***************************************************************************)
InitExhaust ==
    /\ PageTableInit /\ PwcInit({pgdShift}) /\ HierInit /\ SacInit({"current"})
    /\ memKind \in {"linear", "mosaic"}
    /\ \/ memKind = "linear" /\ mem = NewPhysicalMemory(SmallFrames)
       \/ /\ memKind = "mosaic"
          /\ \E h \in HashChoices(SmallFrames) :
                mem = NewMosaicPhysicalMemory(SmallFrames, h)
    /\ memStatus = "running"
    /\ lastAlloc = NoAlloc
    /\ returned = {}
    /\ numAllocs = 0

NextExhaust ==
    \E key \in AllocKeys, keyWidth \in KeyWidths :
        \/ AllocateFrame(key, keyWidth)
        \/ AllocateTinyPtrFrame(key, keyWidth)

SpecExhaust == InitExhaust /\ [][NextExhaust]_vars

\* SpecPwc: one page-walk cache, driven through insert and lookup with
\* addresses that differ inside the tag, below it and above it.
PwcAddrs ==
    {0, MakeVaddr(0, 0, 0, 1, 1), MakeVaddr(0, 1, 0, 0, 0), MakeVaddr(1, 0, 0, 0, 0),
     Pow2(VaBits), Pow2(VaBits) + MakeVaddr(1, 0, 0, 0, kPageMask)}

PwcPfns == {5, 9}

InitPwc ==
    /\ PageTableInit /\ MemoryInit({"linear"})
    /\ PwcInit({pmdShift, pudShift, pgdShift}) /\ HierInit /\ SacInit({"current"})

\* PageWalkCache::insert(vaddr, nextLevelPfn)
PwcInsertCall(vaddr, nextLevelPfn) ==
    /\ pwcLog.ops < MaxPwcOps
    /\ pwc' = PwcInsert(pwc, vaddr, nextLevelPfn)
    /\ pwcLog' = [vaddr |-> vaddr, pfn |-> nextLevelPfn, lookups |-> 0,
                  ops |-> pwcLog.ops + 1]
    /\ UNCHANGED <<ptVars, allocVars, hierVars, sacVars>>

\* PageWalkCache::lookup(vaddr, nextLevelPfn)
PwcLookupCall(vaddr) ==
    /\ pwcLog.ops < MaxPwcOps
    /\ pwc' = PwcLookup(pwc, vaddr).pwc
    /\ pwcLog' = [pwcLog EXCEPT !.lookups = @ + 1, !.ops = @ + 1]
    /\ UNCHANGED <<ptVars, allocVars, hierVars, sacVars>>

NextPwc ==
    \/ \E vaddr \in PwcAddrs, pfn \in PwcPfns : PwcInsertCall(vaddr, pfn)
    \/ \E vaddr \in PwcAddrs : PwcLookupCall(vaddr)

SpecPwc == InitPwc /\ [][NextPwc]_vars

\* SpecCache: the cache hierarchy, driven by data accesses (reads and
\* writes) and by the lookups of the translation path.
DcPaddrs == {1, Pow2(DcLineBits), 2 * Pow2(DcLineBits)}

InitCache ==
    PageTableInit /\ MemoryInit({"linear"}) /\ PwcInit({pgdShift}) /\ HierInit /\ SacInit({"current"})

HierReturns(kind, paddr, isWrite, r) ==
    /\ hier' = r.h
    /\ hierLog' = [ops |-> hierLog.ops + 1, kind |-> kind, paddr |-> paddr,
                   isWrite |-> isWrite, hit |-> r.hit]
    /\ UNCHANGED <<ptVars, allocVars, pwcVars, sacVars>>

\* cacheHierarchy_.Access(paddr, value, isWrite) with value = 0
AccessCall(paddr, isWrite) ==
    /\ hier.status = "running"
    /\ hierLog.ops < MaxCacheOps
    /\ HierReturns("access", paddr, isWrite, Access(hier, paddr, 0, isWrite))

\* dataCache_.TranslateLookup(paddr, value, translationStats_)
TranslateLookupCall(paddr) ==
    /\ hier.status = "running"
    /\ hierLog.ops < MaxCacheOps
    /\ HierReturns("translate", paddr, FALSE, TranslateLookup(hier, paddr, 0))

NextCache ==
    \/ \E paddr \in DcPaddrs, isWrite \in BOOLEAN : AccessCall(paddr, isWrite)
    \/ \E paddr \in DcPaddrs : TranslateLookupCall(paddr)

SpecCache == InitCache /\ [][NextCache]_vars

(***************************************************************************)
(* SpecLines: the cache hierarchy constructed with line sizes that are     *)
(* equal at the three levels, or larger at L2 and L3 than at L1            *)
(***************************************************************************)
\* log2 of the line sizes of L1, L2 and L3
LineBitChoices ==
    {<<DcLineBits, DcLineBits, DcLineBits>>,
     <<DcLineBits, DcLineBits + 1, DcLineBits + 1>>,
     <<DcLineBits, DcLineBits + 1, DcLineBits + 2>>}

\* One address in each of the first four lines of L1.
LinePaddrs == {1} \cup {n * Pow2(DcLineBits) : n \in 1 .. 3}

InitLines ==
    /\ PageTableInit /\ MemoryInit({"linear"}) /\ PwcInit({pgdShift})
    /\ SacInit({"current"})
    /\ \E bits \in LineBitChoices :
          hier = NewCacheHierarchy(NewDataCache(DcNumSets, DcL1Ways, bits[1]),
                                   NewDataCache(DcNumSets, DcL2Ways, bits[2]),
                                   NewDataCache(DcNumSets, DcL3Ways, bits[3]))
    /\ hierLog = NoAccess

LineAccessCall(paddr, isWrite) ==
    /\ hierLog.ops < MaxLineOps
    /\ AccessCall(paddr, isWrite)

LineTranslateLookupCall(paddr) ==
    /\ hierLog.ops < MaxLineOps
    /\ TranslateLookupCall(paddr)

NextLines ==
    \/ \E paddr \in LinePaddrs, isWrite \in BOOLEAN : LineAccessCall(paddr, isWrite)
    \/ \E paddr \in LinePaddrs : LineTranslateLookupCall(paddr)

SpecLines == InitLines /\ [][NextLines]_vars

(***************************************************************************)
(* SpecRun: the simulator's loop, the page table and the data caches        *)
(* together                                                                *)
(***************************************************************************)
RunVaddrs ==
    {MakeVaddr(0, 0, 0, 0, kPageMask), MakeVaddr(0, 0, 0, 1, 1),
     MakeVaddr(1, 0, 0, 0, 1)}

InitRun ==
    PageTableInit /\ MemoryInit({"linear"}) /\ PwcInit({pgdShift}) /\ HierInit /\ SacInit({"current"})

\* One iteration of ProcessBatch: paddr = pageTable_.Translate(vaddr), then
\* cacheHierarchy_.Access(paddr, value, !ref.read).
ReferenceCall(vaddr, isWrite) ==
    /\ Running(pt)
    /\ hier.status = "running"
    /\ numCalls < MaxRunRefs
    /\ hierLog.ops < MaxCacheOps
    /\ \E stale \in StaleReads :
          \E r \in {Translate(pt, vaddr, stale)} :
          \E a \in {Access(hier, r.paddr, 0, isWrite)} :
              /\ pt' = r.s
              /\ IF Running(r.s)
                 THEN /\ numCalls' = numCalls + 1
                      /\ last' = [vaddr |-> vaddr, paddr |-> r.paddr, path |-> r.path,
                                  consulted |-> r.s.consulted, touched |-> r.s.touched,
                                  learned |-> r.s.learned]
                      /\ firstResult' = IF firstResult[vaddr] = NoAddr
                                        THEN [firstResult EXCEPT ![vaddr] = r.paddr]
                                        ELSE firstResult
                      /\ everTouched' = everTouched \cup r.s.touched
                      /\ hier' = a.h
                      /\ hierLog' = [ops |-> hierLog.ops + 1, kind |-> "access",
                                     paddr |-> r.paddr, isWrite |-> isWrite,
                                     hit |-> a.hit]
                 ELSE UNCHANGED <<numCalls, last, firstResult, everTouched, hierVars>>
    /\ UNCHANGED <<allocVars, pwcVars, sacVars>>

NextRun ==
    \/ \E vaddr \in RunVaddrs, isWrite \in BOOLEAN : ReferenceCall(vaddr, isWrite)
    \/ \E paddr \in DcPaddrs : TranslateLookupCall(paddr)

SpecRun == InitRun /\ [][NextRun]_vars

(***************************************************************************)
(* SpecHot: the page table driven by references to one page, at every      *)
(* offset, and to its neighbour                                            *)
(***************************************************************************)
HotVaddrs ==
    {MakeVaddr(0, 0, 1, 0, offset) : offset \in 0 .. kPageMask}
        \cup {MakeVaddr(0, 0, 1, 1, 0)}

InitHot ==
    /\ pt = NewPageTable(NewPhysicalMemory(NumFrames), 1, L1TlbWays,
                         L2TlbSets, L2TlbWays, 1, PwcWays)
    /\ numCalls = 0
    /\ last = NoCall
    /\ firstResult = [v \in HotVaddrs |-> NoAddr]
    /\ everTouched = {}
    /\ MemoryInit({"linear"}) /\ PwcInit({pgdShift}) /\ HierInit /\ SacInit({"current"})

NextHot == \E vaddr \in HotVaddrs : TranslateCall(vaddr)

SpecHot == InitHot /\ [][NextHot]_vars

(***************************************************************************)
(* SpecSweep: fully associative TLBs, the L2 TLB twice the L1 TLB, and a   *)
(* trace that references the pages 1 .. SweepPages in order, twice as many *)
(* as the L2 TLB holds, and then page 1 again                              *)
(***************************************************************************)
SweepOffsets == {0, kPageMask}

SweepVaddrs ==
    {Shl(page, kPageShift) + offset : page \in 1 .. SweepPages, offset \in SweepOffsets}

\* The page of the n-th reference of the trace, n counted from 0.
SweepPage(n) == IF n < SweepPages THEN n + 1 ELSE 1

InitSweep ==
    /\ pt = NewPageTable(NewPhysicalMemory(NumFrames), 1, SweepL1Ways,
                         1, SweepL2Ways, 1, PwcWays)
    /\ numCalls = 0
    /\ last = NoCall
    /\ firstResult = [v \in SweepVaddrs |-> NoAddr]
    /\ everTouched = {}
    /\ MemoryInit({"linear"}) /\ PwcInit({pgdShift}) /\ HierInit /\ SacInit({"current"})

SweepCall(offset) ==
    /\ Running(pt)
    /\ numCalls <= SweepPages
    /\ LET vaddr == Shl(SweepPage(numCalls), kPageShift) + offset
       IN  \E stale \in StaleReads :
             \E r \in {Translate(pt, vaddr, stale)} :
               /\ pt' = r.s
               /\ IF Running(r.s)
                  THEN /\ numCalls' = numCalls + 1
                       /\ last' = [vaddr |-> vaddr, paddr |-> r.paddr, path |-> r.path,
                                   consulted |-> r.s.consulted, touched |-> r.s.touched,
                                   learned |-> r.s.learned]
                       /\ firstResult' = IF firstResult[vaddr] = NoAddr
                                         THEN [firstResult EXCEPT ![vaddr] = r.paddr]
                                         ELSE firstResult
                       /\ everTouched' = everTouched \cup r.s.touched
                  ELSE UNCHANGED <<numCalls, last, firstResult, everTouched>>
    /\ UNCHANGED <<allocVars, pwcVars, hierVars, sacVars>>

NextSweep == \E offset \in SweepOffsets : SweepCall(offset)

SpecSweep == InitSweep /\ [][NextSweep]_vars

(***************************************************************************)
(* SpecSac: a SetAssociativeCache of either class of cache.h, keyed as a   *)
(* TLB is (GetSetIndex is tag % numSets), driven through Insert and Lookup *)
(***************************************************************************)
InitSac ==
    /\ PageTableInit /\ MemoryInit({"linear"}) /\ PwcInit({pgdShift})
    /\ HierInit
    /\ SacInit({"current", "older"})

\* The way of the set that holds the tag, numWays if none does.
WayOf(c, setIndex, tag) ==
    IF MatchingWays(c, setIndex, tag) = {} THEN c.numWays
    ELSE FirstWay(MatchingWays(c, setIndex, tag))

\* Insert(tag, value, isWrite), or insert(tag, value) of the older class; the
\* value inserted is the number of the call.
SacInsertCall(tag, isWrite) ==
    /\ sacLog.ops < MaxSacOps
    /\ sac.kind = "older" => ~isWrite
    /\ LET setIndex == TlbGetSetIndex(sac.cache, tag)
           value == sacLog.ops + 1
           r == IF sac.kind = "current"
                THEN Insert(sac.cache, setIndex, tag, value, isWrite)
                ELSE insert(sac.cache, setIndex, tag, value)
           way == WayOf(r.cache, setIndex, tag)
       IN  /\ sac' = [sac EXCEPT !.cache = r.cache]
           /\ sacLog' = [ops |-> sacLog.ops + 1, op |-> "insert", tag |-> tag,
                         value |-> value, isWrite |-> isWrite,
                         hit |-> MatchingWays(sac.cache, setIndex, tag) # {},
                         hook |-> r.evict,
                         replaced |-> sac.cache.sets[setIndex][way], way |-> way,
                         touch |-> [sacLog.touch EXCEPT ![tag] = sacLog.ops + 1]]
    /\ UNCHANGED <<ptVars, allocVars, pwcVars, hierVars>>

\* Lookup(tag, value), or lookup(tag, value) of the older class
SacLookupCall(tag) ==
    /\ sacLog.ops < MaxSacOps
    /\ LET setIndex == TlbGetSetIndex(sac.cache, tag)
           r == IF sac.kind = "current"
                THEN Lookup(sac.cache, setIndex, tag)
                ELSE lookup(sac.cache, setIndex, tag)
       IN  /\ sac' = [sac EXCEPT !.cache = r.cache]
           /\ sacLog' = [ops |-> sacLog.ops + 1, op |-> "lookup", tag |-> tag,
                         value |-> r.value, isWrite |-> FALSE, hit |-> r.hit,
                         hook |-> FALSE, replaced |-> CacheEntry, way |-> 0,
                         touch |-> IF r.hit
                                   THEN [sacLog.touch EXCEPT ![tag] = sacLog.ops + 1]
                                   ELSE sacLog.touch]
    /\ UNCHANGED <<ptVars, allocVars, pwcVars, hierVars>>

NextSac ==
    \/ \E tag \in SacTags, isWrite \in BOOLEAN : SacInsertCall(tag, isWrite)
    \/ \E tag \in SacTags : SacLookupCall(tag)

SpecSac == InitSac /\ [][NextSac]_vars

(***************************************************************************)
(* SpecConfig: the PageTable constructed from a configuration of the       *)
(* driver's choosing, then driven by a trace                               *)
(***************************************************************************)
\* (n & (n - 1)) == 0 on unsigned words, as the constructor's asserts
\* compute it: n - 1 wraps around for n = 0.
AndWithPredecessorIsZero(n) == BitAnd(n, (n + Pow2(kWordBits) - 1) % Pow2(kWordBits)) = 0

\* StaticLog2(n) = (n == 0) ? 0 : 31 - __builtin_clz(n), the position of the
\* highest set bit.
StaticLog2(n) ==
    IF n = 0 THEN 0
    ELSE CHOOSE k \in 0 .. kWordBits - 1 : Pow2(k) <= n /\ n < Pow2(k + 1)

\* The shifts the constructor's initialiser list derives from the entry
\* counts, and the asserts of its body; TRUE when none of them fails.
ConfigPgdShift(c) ==
    kPageShift + StaticLog2(c.pteEntryNum) + StaticLog2(c.pmdEntryNum)
        + StaticLog2(c.pudEntryNum)

\* The asserts of the constructor without the one on the shifts.
ConstructorAssertsButShift(c) ==
    /\ AndWithPredecessorIsZero(c.pgdEntryNum)
    /\ AndWithPredecessorIsZero(c.pudEntryNum)
    /\ AndWithPredecessorIsZero(c.pmdEntryNum)
    /\ AndWithPredecessorIsZero(c.pteEntryNum)
    /\ IF c.tocEnabled
       THEN c.tocSize > 0 /\ AndWithPredecessorIsZero(c.tocSize)
       ELSE c.tocSize = 0

ConstructorAsserts(c) ==
    /\ AndWithPredecessorIsZero(c.pgdEntryNum)
    /\ AndWithPredecessorIsZero(c.pudEntryNum)
    /\ AndWithPredecessorIsZero(c.pmdEntryNum)
    /\ AndWithPredecessorIsZero(c.pteEntryNum)
    /\ ConfigPgdShift(c) + StaticLog2(c.pgdEntryNum) = VaBits
    /\ IF c.tocEnabled
       THEN c.tocSize > 0 /\ AndWithPredecessorIsZero(c.tocSize)
       ELSE c.tocSize = 0

\* PageTable::PageTable for a configuration: the page table of NewPageTable,
\* aborted when an assert of the constructor fails.
ConstructPageTable(c) ==
    LET p == NewPageTable(NewPhysicalMemory(NumFrames), 1, L1TlbWays,
                          L2TlbSets, L2TlbWays, 1, PwcWays)
    IN  [p EXCEPT !.status = IF @ = "running" /\ ~ConstructorAsserts(c)
                             THEN "aborted" ELSE @]
            @@ [config |-> c]

\* The configuration whose geometry the operators above translate by.
ModelConfig ==
    [pgdEntryNum |-> pgdEntryNum, pudEntryNum |-> pudEntryNum,
     pmdEntryNum |-> pmdEntryNum, pteEntryNum |-> pteEntryNum,
     tocEnabled |-> FALSE, tocSize |-> 0]

\* The configuration of one entry at every level.
OneEntryConfig ==
    [pgdEntryNum |-> 1, pudEntryNum |-> 1, pmdEntryNum |-> 1, pteEntryNum |-> 1,
     tocEnabled |-> FALSE, tocSize |-> 0]

EntryNums == 0 .. MaxEntryCount

TocSizes == {0, 2, 3}

Configs ==
    [pgdEntryNum : EntryNums, pudEntryNum : EntryNums, pmdEntryNum : EntryNums,
     pteEntryNum : EntryNums, tocEnabled : BOOLEAN, tocSize : TocSizes]

InitConfig ==
    /\ \E c \in Configs : pt = ConstructPageTable(c)
    /\ numCalls = 0
    /\ last = NoCall
    /\ firstResult = [v \in Vaddrs |-> NoAddr]
    /\ everTouched = {}
    /\ MemoryInit({"linear"}) /\ PwcInit({pgdShift}) /\ HierInit /\ SacInit({"current"})

\* A reference translated by the page table so constructed.
ConfiguredTranslateCall(vaddr) ==
    /\ pt.config = ModelConfig
    /\ TranslateCall(vaddr)

NextConfig == \E vaddr \in RunVaddrs : ConfiguredTranslateCall(vaddr)

SpecConfig == InitConfig /\ [][NextConfig]_vars

(***************************************************************************)
(* SpecNarrow: the PageTable of a configuration with more or fewer than    *)
(* 512 entries at the PUD, the PMD or the PTE level, driven by a trace.    *)
(* The scaled geometry keeps its index bits; the configured entry counts   *)
(* set the entry widths.                                                   *)
(***************************************************************************)
\* pudEntryWidth_(4096 >> StaticLog2(pudEntryNum_)), and likewise for the
\* PMD and the PTE level.
EntryWidth(entryNum) == Shr(4096, StaticLog2(entryNum))

LevelEntryNums == {256, 512, 1024, 2048, 4096}

NarrowConfigs ==
    {c \in [pud : LevelEntryNums, pmd : LevelEntryNums, pte : LevelEntryNums] :
        c.pud # 512 \/ c.pmd # 512 \/ c.pte # 512}

InitNarrow ==
    /\ \E c \in NarrowConfigs :
          pt = [NewPageTable(NewPhysicalMemory(NumFrames), 1, L1TlbWays,
                             L2TlbSets, L2TlbWays, 1, PwcWays)
                   EXCEPT !.entryWidth = [pud |-> EntryWidth(c.pud),
                                          pmd |-> EntryWidth(c.pmd),
                                          pte |-> EntryWidth(c.pte)]]
    /\ numCalls = 0
    /\ last = NoCall
    /\ firstResult = [v \in Vaddrs |-> NoAddr]
    /\ everTouched = {}
    /\ MemoryInit({"linear"}) /\ PwcInit({pgdShift}) /\ HierInit /\ SacInit({"current"})

SpecNarrow == InitNarrow /\ [][Next]_vars

(***************************************************************************)
(* Properties of the translation engine                                    *)
(***************************************************************************)
Returned == last.vaddr # NoAddr

LastVpn == Shr(last.vaddr, kPageShift)

LastPfn == Shr(last.paddr, kPageShift)

WalkPaths == {"pmdPwc", "pudPwc", "pgdPwc", "fullWalk"}

\* C1: within one run, every Translate call for a virtual address returns the
\* physical address that the first call for that address returned, whatever
\* path serves it.
C1_SameAddressSameResult ==
    Returned => last.paddr = firstResult[last.vaddr]

\* C2: the physical address returned by Translate has the page offset (the low
\* kPageShift bits) of the virtual address, on every path.
C2_OffsetPreserved ==
    Returned => last.paddr % kMemTracePageSize = last.vaddr % kMemTracePageSize

C2_Witness ==
    /\ Returned
    /\ last.path = "pgdPwc"
    /\ last.vaddr % kMemTracePageSize # 0
    /\ numCalls >= 4

PathCounters ==
    {"l1TlbHits", "l2TlbHits", "pmdCacheHits", "pudCacheHits", "pgdCacheHits", "fullWalks"}

\* C3: a Translate call that returns has incremented exactly one of the six
\* path counters, by one, and the six counters sum to the number of calls.
C3_OnePathCounterPerCall ==
    [][numCalls' = numCalls + 1 =>
        /\ \E f \in PathCounters :
              /\ pt'.translationStats[f] = pt.translationStats[f] + 1
              /\ \A g \in PathCounters \ {f} :
                    pt'.translationStats[g] = pt.translationStats[g]
        /\ GetTotalTranslation(pt'.translationStats) = numCalls']_vars

C3_Witness ==
    /\ numCalls = MaxRefs
    /\ Cardinality({f \in PathCounters : pt.translationStats[f] > 0}) >= 4

ConsultOrder == <<"l1Tlb", "l2Tlb", "pmdPwc", "pudPwc", "pgdPwc">>

\* C4: the structures are consulted in the order L1 TLB, L2 TLB, PMD-PWC,
\* PUD-PWC, PGD-PWC; each one only after all earlier ones missed; the first
\* that hits serves the call, and the full walk is made only after all five
\* missed.  The access and hit counters of the five structures say the same.
C4_FirstHitServes ==
    /\ Returned =>
          LET c == last.consulted
              n == Len(c)
          IN  /\ n \in 1 .. 5
              /\ \A i \in 1 .. n : c[i][1] = ConsultOrder[i]
              /\ \A i \in 1 .. n - 1 : ~c[i][2]
              /\ c[n][2] => last.path = ConsultOrder[n]
              /\ ~c[n][2] => n = 5 /\ last.path = "fullWalk"
    /\ Running(pt) =>
          /\ pt.l2Tlb.accesses = pt.l1Tlb.accesses - pt.l1Tlb.hits
          /\ pt.pmdPwc.cache.accesses = pt.l2Tlb.accesses - pt.l2Tlb.hits
          /\ pt.pudPwc.cache.accesses = pt.pmdPwc.cache.accesses - pt.pmdPwc.cache.hits
          /\ pt.pgdPwc.cache.accesses = pt.pudPwc.cache.accesses - pt.pudPwc.cache.hits
          /\ pt.translationStats.fullWalks = pt.pgdPwc.cache.accesses - pt.pgdPwc.cache.hits

C4_Witness ==
    /\ Returned
    /\ last.path = "pudPwc"
    /\ Len(last.consulted) = 4
    /\ pt.translationStats.l2TlbHits > 0

\* The entry of table page addr at index is present.
Present(addr, index) ==
    addr \in DOMAIN pt.pageTables /\ pt.pageTables[addr][index].present

ChildAddr(addr, index) == Shl(pt.pageTables[addr][index].pfn, kPageShift)

\* The PGD, PUD, PMD and PTE entries that vaddr indexes, from cr3 down, are
\* all present.
PathPresent(vaddr) ==
    /\ Present(pt.cr3, GetPgdIndex(vaddr))
    /\ LET pudAddr == ChildAddr(pt.cr3, GetPgdIndex(vaddr))
       IN  /\ Present(pudAddr, GetPudIndex(vaddr))
           /\ LET pmdAddr == ChildAddr(pudAddr, GetPudIndex(vaddr))
              IN  /\ Present(pmdAddr, GetPmdIndex(vaddr))
                  /\ Present(ChildAddr(pmdAddr, GetPmdIndex(vaddr)), GetPteIndex(vaddr))

\* C5: after Translate(v) has returned, the four entries indexed by v are
\* present, and every entry that is not present was never read by a
\* translation.
C5_LazyAndComplete ==
    /\ Returned => PathPresent(last.vaddr)
    /\ \A e \in everTouched : Present(e[1], e[2])

\* The TLB holds a valid entry vpn -> pfn.
TlbHolds(c, vpn, pfn) ==
    \E w \in 0 .. c.numWays - 1 :
        LET e == c.sets[TlbGetSetIndex(c, vpn)][w]
        IN  e.valid /\ e.tag = vpn /\ e.value = pfn

\* C8: right after a Translate served by a PWC hit or by the full walk, the
\* L1 TLB and the L2 TLB both hold vpn -> pfn for the address translated.
C8_BothTlbsFilled ==
    (Returned /\ last.path \in WalkPaths) =>
        /\ TlbHolds(pt.l1Tlb, LastVpn, LastPfn)
        /\ TlbHolds(pt.l2Tlb, LastVpn, LastPfn)

C8_Witness ==
    /\ Returned
    /\ last.path = "pmdPwc"
    /\ pt.l2Tlb.globalLruCounter >= 3

\* The PWC holds a valid entry for vaddr's tag with this value.
PwcHolds(p, vaddr, pfn) ==
    \E w \in 0 .. p.cache.numWays - 1 :
        LET e == p.cache.sets[PwcGetSetIndex(p, GetTag(p, vaddr))][w]
        IN  e.valid /\ e.tag = GetTag(p, vaddr) /\ e.value = pfn

\* C9: after a full walk the PGD-, PUD- and PMD-PWC hold, under the address's
\* tag, the PUD-, PMD- and PTE-table frame read on the way; after a PGD-PWC
\* hit the PUD- and PMD-PWC do; after a PUD-PWC hit the PMD-PWC does.
C9_PwcsFilledBelow ==
    Returned =>
        /\ last.path = "fullWalk" =>
              /\ last.learned.pud # NoPfn
              /\ PwcHolds(pt.pgdPwc, last.vaddr, last.learned.pud)
        /\ last.path \in {"fullWalk", "pgdPwc"} =>
              /\ last.learned.pmd # NoPfn
              /\ PwcHolds(pt.pudPwc, last.vaddr, last.learned.pmd)
        /\ last.path \in {"fullWalk", "pgdPwc", "pudPwc"} =>
              /\ last.learned.pte # NoPfn
              /\ PwcHolds(pt.pmdPwc, last.vaddr, last.learned.pte)

C9_Witness ==
    /\ Returned
    /\ last.path = "pgdPwc"
    /\ PwcHolds(pt.pudPwc, last.vaddr, last.learned.pmd)
    /\ PwcHolds(pt.pmdPwc, last.vaddr, last.learned.pte)
    /\ pt.pudPwc.cache.globalLruCounter >= 3

(***************************************************************************)
(* Properties of the frame allocators                                      *)
(***************************************************************************)
Allocated == lastAlloc.frame # NoPfn

\* C6: over the allocations of one run, no allocator (the linear one, the
\* tiny-pointer one) returns a frame number it has returned before.
C6_NeverSameFrameTwice ==
    Allocated => lastAlloc.frame \notin returned

\* C7: no allocation, by the linear or by the tiny-pointer allocator, returns
\* frame number 0.
C7_FrameZeroNeverReturned ==
    Allocated => lastAlloc.frame # 0

\* What decoding the last allocation's (key, tiny pointer) gives.
DecodeLast ==
    IF memKind = "mosaic"
    THEN MosaicDecodeFrame(mem, lastAlloc.key, lastAlloc.ptr)
    ELSE Po2CQuery(mem, lastAlloc.key, lastAlloc.ptr)

\* C10: the (tiny pointer, frame) pair of every successful allocation of the
\* tiny-pointer allocator decodes, with the allocation's key, to that frame:
\* in whichever candidate bin the slot was taken, for every slot 1 .. 127.
C10_TinyPointerRoundTrip ==
    (Allocated /\ memKind # "linear") =>
        /\ DecodeLast.ok
        /\ DecodeLast.frame = lastAlloc.frame

\* The last slot of a bin taken through the second hash function: the tiny
\* pointer is 127 ^ 0xFF = 128.
C10_Witness ==
    /\ Allocated
    /\ memKind = "mosaic"
    /\ lastAlloc.ptr = 128
    /\ DecodeLast.frame = lastAlloc.frame
    /\ \E q \in returned : q = lastAlloc.frame - kBinSize

(***************************************************************************)
(* Properties of the page-walk cache                                       *)
(***************************************************************************)
Bit(x, i) == Shr(x, i) % 2

\* v and w agree on the bits low .. high.
SameSlice(v, w, low, high) == \A i \in low .. high : Bit(v, i) = Bit(w, i)

\* C11: after insert(vaddr, pfn), and until the next insert, a lookup of any
\* address that agrees with vaddr on the bits [low .. high] of the PWC hits
\* and returns pfn, whatever the other bits of that address are.
C11_PwcRoundTrip ==
    pwcLog.vaddr # NoAddr =>
        \A v \in PwcAddrs :
            SameSlice(v, pwcLog.vaddr, pwc.indexBitsLow, pwc.indexBitsHigh) =>
                /\ PwcLookup(pwc, v).hit
                /\ PwcLookup(pwc, v).value = pwcLog.pfn

\* An earlier insert, then an insert at the PGD level's PWC followed by a
\* lookup; an address with other low bits and a bit above the tag set shares
\* the slice.
C11_Witness ==
    /\ pwcLog.vaddr = MakeVaddr(1, 0, 0, 0, 0)
    /\ pwcLog.lookups >= 1
    /\ pwcLog.ops >= 3
    /\ pwc.indexBitsLow = pgdShift
    /\ SameSlice(Pow2(VaBits) + MakeVaddr(1, 0, 0, 0, kPageMask), pwcLog.vaddr,
                 pwc.indexBitsLow, pwc.indexBitsHigh)
    /\ PwcLookup(pwc, Pow2(VaBits) + MakeVaddr(1, 0, 0, 0, kPageMask)).value = pwcLog.pfn

(***************************************************************************)
(* Properties of the data-cache hierarchy                                  *)
(***************************************************************************)
L1 == hier.caches[1]

L2 == hier.caches[2]

L3 == hier.caches[3]

\* C12: after any sequence of data accesses and translation lookups the
\* main-memory access counter is the number of L3 misses plus the number of
\* L3 write-backs, and the assert of Access has not failed.
C12_MemoryAccessesAreL3Misses ==
    /\ hier.status = "running"
    /\ hier.memAccessCount = (L3.cache.accesses - L3.cache.hits) + L3.writebacks

\* L3 has written a dirty line back, the translation path has looked L3 up,
\* and main memory has been accessed four times.
C12_Witness ==
    /\ hier.status = "running"
    /\ L3.writebacks >= 1
    /\ hier.l3DataCacheAccess >= 1
    /\ hier.memAccessCount >= 4

\* C13: in every call, each write-back counted by L1 comes with an Insert
\* with isWrite set into L2, and each one counted by L2 with such an Insert
\* into L3 (the only other such Inserts are those of a write that hits L2 or
\* L3); each write-back counted by L3 comes with an increment of the
\* main-memory access counter (the only other increments are L3 misses).
C13_WritebacksGoDown ==
    [][LET d(level, f) == hier'.caches[level][f] - hier.caches[level][f]
           dc(level, f) == hier'.caches[level].cache[f] - hier.caches[level].cache[f]
           w(level) == IF hierLog'.isWrite /\ dc(level, "hits") = 1 THEN 1 ELSE 0
       IN  /\ d(2, "writeInserts") = d(1, "writebacks") + w(2)
           /\ d(3, "writeInserts") = d(2, "writebacks") + w(3)
           /\ hier'.memAccessCount - hier.memAccessCount
                  = d(3, "writebacks") + (dc(3, "accesses") - dc(3, "hits"))]_hierVars

\* Every level has written a dirty line back.
C13_Witness ==
    /\ L1.writebacks >= 1
    /\ L2.writebacks >= 1
    /\ L3.writebacks >= 1
    /\ L2.writeInserts >= L1.writebacks
    /\ L3.writeInserts >= L2.writebacks

\* C14: in the running simulator every cache (both TLBs, the three PWCs,
\* L1, L2 and L3) has at most as many hits as accesses, and in every data
\* cache the read hits and the write hits add up to the hits and the read
\* and the write accesses to the accesses, the lookups of the translation
\* path included.
C14_HitsWithinAccesses ==
    /\ \A c \in {pt.l1Tlb, pt.l2Tlb, pt.pgdPwc.cache, pt.pudPwc.cache,
                  pt.pmdPwc.cache, L1.cache, L2.cache, L3.cache} :
           c.hits <= c.accesses
    /\ \A level \in 1 .. 3 :
           LET dc == hier.caches[level]
           IN  /\ dc.readHits + dc.writeHits = dc.cache.hits
               /\ dc.readAccesses + dc.writeAccesses = dc.cache.accesses

\* A TLB, a PWC and L1 have each hit, a write has hit a data cache, and the
\* translation path has hit L2.
C14_Witness ==
    /\ pt.l1Tlb.hits >= 1
    /\ pt.pmdPwc.cache.hits >= 1
    /\ pt.l1Tlb.hits < pt.l1Tlb.accesses
    /\ L1.writeHits >= 1
    /\ hier.l2DataCacheHits >= 1

\* The lines of the addresses the driver supplies, and whether a level holds
\* a valid, or a valid and dirty, entry for a line.
DcTags == {Shr(paddr, DcLineBits) : paddr \in DcPaddrs}

ValidIn(h, level, tag) ==
    LET dc == h.caches[level]
        set == dc.cache.sets[DcGetSetIndex(dc, tag)]
    IN  \E w \in DOMAIN set : set[w].valid /\ set[w].tag = tag

DirtyIn(h, level, tag) ==
    LET dc == h.caches[level]
        set == dc.cache.sets[DcGetSetIndex(dc, tag)]
    IN  \E w \in DOMAIN set : set[w].valid /\ set[w].tag = tag /\ set[w].dirty

\* C15: a line that L1 holds dirty (it was written) and that a call evicts
\* from L1 is counted in L1's writebacks by that call, and after the call L2
\* holds a valid, dirty entry for it.
C15_WriteBackPropagation ==
    [][\A tag \in DcTags :
          (DirtyIn(hier, 1, tag) /\ ~ValidIn(hier', 1, tag)) =>
              /\ hier'.caches[1].writebacks >= hier.caches[1].writebacks + 1
              /\ DirtyIn(hier', 2, tag)]_hierVars

\* A written line has left L1 for L2, which has evicted nothing dirty and
\* has been written to by that write-back only.
C15_Witness ==
    /\ hierLog.kind = "access"
    /\ L1.writebacks >= 1
    /\ L2.writebacks = 0
    /\ L2.writeInserts = 1
    /\ \E tag \in DcTags :
          /\ tag # Shr(hierLog.paddr, DcLineBits)
          /\ ~ValidIn(hier, 1, tag)
          /\ DirtyIn(hier, 2, tag)

(***************************************************************************)
(* Properties of the allocators' failures                                  *)
(***************************************************************************)
\* Physical memory is exhausted: the linear allocator has handed out its
\* last frame, the tiny-pointer allocator has allocated as many frames as
\* the memory has.
Exhausted ==
    IF memKind = "linear" THEN mem.nextFrame >= mem.numFrames
    ELSE mem.allocatedFrames >= mem.numFrames

\* C16: a frame allocation made when physical memory is exhausted ends the
\* run (exit(1) or a failed assert) and returns no frame, for the linear and
\* for the tiny-pointer allocator, through AllocateFrame and through
\* AllocateTinyPtrFrame.
C16_ExhaustionIsFatal ==
    [][Exhausted =>
          /\ memStatus' \in {"exited", "aborted"}
          /\ lastAlloc' = lastAlloc]_allocVars

\* The free slots of a bin: the first kBinSize - cnt_ slots of the free list
\* that starts at head_.  The list is followed by repeated doubling of the
\* successor function (step[k] goes 2^k links ahead), which keeps the
\* evaluation shallow.
FreeSlots(b) ==
    LET Slots == 1 .. kBinSize + 1
        next == [s \in Slots |-> IF s <= kBinSize /\ b.bin[s - 1] \in Slots
                                 THEN b.bin[s - 1] ELSE kBinSize + 1]
        Twice(f) == [s \in Slots |-> f[f[s]]]
        s1 == Twice(next)
        s2 == Twice(s1)
        s3 == Twice(s2)
        s4 == Twice(s3)
        s5 == Twice(s4)
        s6 == Twice(s5)
        step == <<next, s1, s2, s3, s4, s5, s6>>
        Hop(s, i, k) == IF (i \div Pow2(k)) % 2 = 1 THEN step[k + 1][s] ELSE s
        At(i) == Hop(Hop(Hop(Hop(Hop(Hop(Hop(b.head, i, 0), i, 1), i, 2), i, 3),
                             i, 4), i, 5), i, 6)
    IN  {At(i) : i \in 0 .. kBinSize - b.cnt - 1} \cap (1 .. kBinSize)

\* The table of the tiny-pointer allocator under test.
Po2CTableOf(m) == IF memKind = "mosaic" THEN m.po2cTable ELSE m

\* No placement is possible for (key, keyWidth): both candidate bins are
\* full, or the bin Allocate inserts into (the less full one) has no free
\* slot below 2^(keyWidth - 1).
PlacementImpossible(t, key, keyWidth) ==
    LET b0 == t.tab[t.hashBin[0][key]]
        b1 == t.tab[t.hashBin[1][key]]
        chosen == IF Count(b0) > Count(b1) THEN b1 ELSE b0
    IN  \/ Full(b0) /\ Full(b1)
        \/ \A slot \in FreeSlots(chosen) : slot >= Pow2(keyWidth - 1)

\* C17: whenever no placement is possible for a key and a key width, the
\* tiny-pointer allocation for them fails an assert and yields no
\* (tiny pointer, frame) pair.
C17_ImpossiblePlacementIsFatal ==
    memKind # "linear" =>
        \A key \in AllocKeys, keyWidth \in KeyWidths :
            PlacementImpossible(Po2CTableOf(mem), key, keyWidth) =>
                ~Po2CAllocate(Po2CTableOf(mem), key, keyWidth).ok

(***************************************************************************)
(* Properties of the page table's construction                             *)
(***************************************************************************)
IsPowerOfTwo(n) == \E k \in 0 .. kWordBits - 1 : n = Pow2(k)

\* The configurations the constructor is to refuse.
InvalidConfig(c) ==
    \/ \E n \in {c.pgdEntryNum, c.pudEntryNum, c.pmdEntryNum, c.pteEntryNum} :
          ~IsPowerOfTwo(n)
    \/ ConfigPgdShift(c) + StaticLog2(c.pgdEntryNum) # VaBits
    \/ c.tocEnabled /\ ~IsPowerOfTwo(c.tocSize)
    \/ ~c.tocEnabled /\ c.tocSize # 0

\* C18: a page table constructed from an invalid configuration (an entry
\* count that is not a power of two, shifts that do not add up to the
\* address width, a TOC size that is not a power of two with TOC enabled or
\* not zero with TOC disabled) has failed an assert of its constructor, and
\* translates nothing.
C18_InvalidConfigurationIsFatal ==
    InvalidConfig(pt.config) => (pt.status = "aborted" /\ numCalls = 0)

(***************************************************************************)
(* Properties of the first reference                                       *)
(***************************************************************************)
\* Exactly one reference has been translated, on a fresh page table.
OneColdReference == numCalls = 1 /\ Running(pt)

\* C19 as stated: after one cold reference the linear PhysicalMemory reports
\* 5 allocated frames (root, PUD table, PMD table, PTE table, data page).
C19_FiveFramesAfterColdReference ==
    OneColdReference => pt.physMem.allocatedFrames = 5

\* C19, amended: after one cold reference the linear PhysicalMemory reports
\* 6 allocated frames: frame 0, which its constructor reserves and counts,
\* and the root, the PUD table, the PMD table, the PTE table and the data
\* page.
C19_SixFramesAfterColdReference ==
    OneColdReference =>
        /\ pt.physMem.allocatedFrames = 6
        /\ pt.physMem.frameAllocated = 0 .. 5

C19_Witness ==
    /\ OneColdReference
    /\ last.path = "fullWalk"
    /\ pt.physMem.nextFrame = 6

\* C20: after one cold reference the allocation counters of the four
\* levels, pgdStats, pudStats, pmdStats and pteStats, are 1 each.
C20_OneAllocationPerLevel ==
    OneColdReference =>
        /\ pt.pgdStats.allocations = 1
        /\ pt.pudStats.allocations = 1
        /\ pt.pmdStats.allocations = 1
        /\ pt.pteStats.allocations = 1

(***************************************************************************)
(* Properties of traces                                                    *)
(***************************************************************************)
\* The addresses translated so far, and whether they lie in one page.
Called == {v \in DOMAIN firstResult : firstResult[v] # NoAddr}

OnePage == \A v, w \in Called : Shr(v, kPageShift) = Shr(w, kPageShift)

\* C21: as long as every reference of the run has been to one virtual page,
\* the first was a full walk and every other one an L1-TLB hit: of n
\* references, fullWalks is 1, l1TlbHits is n - 1, and the L2-TLB-hit and
\* the three PWC-hit counters are 0.
C21_HotPage ==
    (numCalls >= 1 /\ Running(pt) /\ OnePage) =>
        /\ pt.translationStats.fullWalks = 1
        /\ pt.translationStats.l1TlbHits = numCalls - 1
        /\ pt.translationStats.l2TlbHits = 0
        /\ pt.translationStats.pmdCacheHits = 0
        /\ pt.translationStats.pudCacheHits = 0
        /\ pt.translationStats.pgdCacheHits = 0
        /\ (numCalls >= 2 => last.path = "l1Tlb")

\* MaxRefs references to one page, at three offsets or more.
C21_Witness ==
    /\ numCalls = MaxRefs
    /\ Running(pt)
    /\ OnePage
    /\ Cardinality(Called) >= 3
    /\ pt.translationStats.l1TlbHits = MaxRefs - 1

\* The TLB holds a valid entry for the page.
TlbHoldsPage(c, vpn) ==
    \E w \in 0 .. c.numWays - 1 :
        LET e == c.sets[TlbGetSetIndex(c, vpn)][w]
        IN  e.valid /\ e.tag = vpn

\* This step is a Translate call that returns, right after one that a walk
\* (a PWC hit or the full walk) served, for another page under the same PMD
\* entry, a page neither TLB holds.
SamePmdStep ==
    /\ Returned
    /\ last.path \in WalkPaths
    /\ numCalls' = numCalls + 1
    /\ Running(pt')
    /\ Shr(last'.vaddr, kPageShift) # LastVpn
    /\ Shr(last'.vaddr, pmdShift) = Shr(last.vaddr, pmdShift)
    /\ ~TlbHoldsPage(pt.l1Tlb, Shr(last'.vaddr, kPageShift))
    /\ ~TlbHoldsPage(pt.l2Tlb, Shr(last'.vaddr, kPageShift))

SweepRevisited == numCalls = SweepPages + 1 /\ Running(pt)

\* C23: with fully associative TLBs, the L2 TLB twice the size of the L1 TLB,
\* and the pages 1 .. SweepPages (twice the L2 TLB's entries) referenced in
\* order, one more reference to page 1 misses the L1 TLB and is served by
\* the L2 TLB or by a page walk cache, never by a full walk: the run counts
\* one full walk per page of the sweep and no more.
C23_RevisitIsNotFullWalk ==
    SweepRevisited =>
        /\ LastVpn = 1
        /\ last.path \in {"l2Tlb", "pmdPwc", "pudPwc", "pgdPwc"}
        /\ last.consulted[1] = <<"l1Tlb", FALSE>>
        /\ pt.translationStats.fullWalks <= SweepPages

\* The revisit of page 1 has returned, the L1 TLB no longer held the page.
C23_Witness ==
    /\ SweepRevisited
    /\ LastVpn = 1
    /\ last.path # "l1Tlb"
    /\ pt.translationStats.l1TlbHits = 0

(***************************************************************************)
(* Properties of the entry-count extremes                                  *)
(***************************************************************************)
\* The two extremes: one entry at every level, and the full-size tables
\* whose index bits fill the address (512 entries each for 48-bit addresses).
ExtremeConfigs == {OneEntryConfig, ModelConfig}

DirtySomewhere(h, tag) == \E level \in 1 .. 3 : DirtyIn(h, level, tag)

\* C25: no modified line is lost.  After every operation every line written
\* since L3 last wrote it back to main memory is valid and dirty in L1, L2 or
\* L3; and a line that is dirty somewhere before an operation and nowhere
\* after it has been written back by L3 during the operation, every such
\* write-back counted by L3's writebacks and by the main-memory counter.
C25_NoModifiedLineLost ==
    [][/\ \A tag \in hier'.modified : DirtySomewhere(hier', tag)
       /\ \A tag \in DcTags :
            (DirtySomewhere(hier, tag) /\ ~DirtySomewhere(hier', tag))
                => tag \in hier'.writtenBack
       /\ hier'.caches[3].writebacks - hier.caches[3].writebacks
              >= Cardinality(hier'.writtenBack)
       /\ hier'.memAccessCount - hier.memAccessCount
              >= hier'.caches[3].writebacks - hier.caches[3].writebacks
      ]_vars

\* A line written earlier has just left the hierarchy through L3's
\* write-back, while another written line is still held dirty.
C25_Witness ==
    /\ hier.status = "running"
    /\ hier.writtenBack # {}
    /\ \E tag \in hier.writtenBack : ~DirtySomewhere(hier, tag)
    /\ hier.modified # {}

\* C26: the hierarchy is inclusive between operations, whatever mix of data
\* accesses and translation lookups has run: a line valid in L1 is valid in
\* L2, and a line valid in L2 is valid in L3.
C26_Inclusive ==
    \A tag \in DcTags :
        /\ ValidIn(hier, 1, tag) => ValidIn(hier, 2, tag)
        /\ ValidIn(hier, 2, tag) => ValidIn(hier, 3, tag)

(***************************************************************************)
(* Properties of SetAssociativeCache                                       *)
(***************************************************************************)
\* The last call was an Insert of a tag its set did not hold.
InsertedAbsent == sacLog.op = "insert" /\ ~sacLog.hit

\* The set of the last call as it was before the call: the entry replaced
\* put back in its way.
SetBefore ==
    [sac.cache.sets[TlbGetSetIndex(sac.cache, sacLog.tag)]
        EXCEPT ![sacLog.way] = sacLog.replaced]

InvalidWaysBefore == {w \in DOMAIN SetBefore : ~SetBefore[w].valid}

\* C27: an Insert of an absent tag into a set with an invalid way replaces
\* no valid entry and uses the first invalid way; into a set whose ways are
\* all valid, it replaces the entry whose most recent touch (a hit of Lookup
\* or an Insert) is the oldest of the set.
C27_VictimIsFirstInvalidOrLru ==
    InsertedAbsent =>
        IF InvalidWaysBefore # {}
        THEN /\ ~sacLog.replaced.valid
             /\ \A w \in InvalidWaysBefore : sacLog.way <= w
        ELSE /\ sacLog.replaced.valid
             /\ \A w \in DOMAIN SetBefore :
                   sacLog.touch[sacLog.replaced.tag] <= sacLog.touch[SetBefore[w].tag]

\* This step is an Insert of a tag its set holds.
InsertsPresent == sacLog'.op = "insert" /\ sacLog'.hit

\* C28: an Insert of a tag already present in its set overwrites the value of
\* the entry, sets its dirty bit to (previous dirty OR isWrite), makes it the
\* most recently used entry, leaves every other entry of the cache as it
\* was (nothing is evicted), and does not call the eviction hook.
C28_InsertOfPresentTag ==
    [][InsertsPresent =>
          LET setIndex == TlbGetSetIndex(sac.cache, sacLog'.tag)
              way == sacLog'.way
              old == sac.cache.sets[setIndex][way]
              new == sac'.cache.sets[setIndex][way]
          IN  /\ old.valid /\ old.tag = sacLog'.tag
              /\ new = [old EXCEPT !.value = sacLog'.value,
                                   !.dirty = old.dirty \/ sacLog'.isWrite,
                                   !.lruCounter = new.lruCounter]
              /\ \A s \in DOMAIN sac.cache.sets : \A w \in DOMAIN sac.cache.sets[s] :
                    <<s, w>> # <<setIndex, way>> =>
                        /\ sac'.cache.sets[s][w] = sac.cache.sets[s][w]
                        /\ sac'.cache.sets[s][w].lruCounter < new.lruCounter
              /\ ~sacLog'.hook
      ]_vars

\* A read Insert has overwritten the value of an entry that is dirty, and the
\* entry is dirty still.
C28_Witness ==
    /\ sacLog.op = "insert" /\ sacLog.hit
    /\ ~sacLog.isWrite
    /\ sacLog.replaced.dirty
    /\ sacLog.replaced.value # sacLog.value
    /\ sac.cache.sets[TlbGetSetIndex(sac.cache, sacLog.tag)][sacLog.way].dirty
    /\ \E w \in 0 .. sac.cache.numWays - 1 :
          /\ w # sacLog.way
          /\ sac.cache.sets[TlbGetSetIndex(sac.cache, sacLog.tag)][w].valid

(***************************************************************************)
(* Properties of the eviction hook                                         *)
(***************************************************************************)
\* The entry that an Insert of the tag into the cache of the level replaces.
Replaced(h, level, tag) ==
    LET dc == h.caches[level]
        setIndex == DcGetSetIndex(dc, tag)
        after == DcInsert(h, level, tag, 0, FALSE).caches[level].cache
    IN  dc.cache.sets[setIndex][WayOf(after, setIndex, tag)]

\* An Insert of the tag into the cache of the level replaces a valid, dirty
\* entry of another tag.
ReplacesDirty(h, level, tag) ==
    /\ ~ValidIn(h, level, tag)
    /\ Replaced(h, level, tag).valid
    /\ Replaced(h, level, tag).dirty

\* C29: whatever the state of the hierarchy, an Insert into one of its caches
\* runs the eviction hook (which counts a write-back) exactly when it
\* replaces a valid and dirty entry; an Insert that replaces an invalid or a
\* clean entry, or meets its tag, changes no writebacks counter, no other
\* cache and not the main-memory counter.  The hook of a TLB changes none of
\* them whatever it is called with.
C29_HookOnlyForDirtyVictims ==
    /\ \A level \in 1 .. 3, tag \in DcTags, isWrite \in BOOLEAN :
          LET after == DcInsert(hier, level, tag, 0, isWrite)
          IN  IF ReplacesDirty(hier, level, tag)
              THEN after.caches[level].writebacks = hier.caches[level].writebacks + 1
              ELSE /\ \A l \in 1 .. 3 :
                        /\ after.caches[l].writebacks = hier.caches[l].writebacks
                        /\ l # level => after.caches[l] = hier.caches[l]
                   /\ after.memAccessCount = hier.memAccessCount
                   /\ after.writtenBack = hier.writtenBack
    /\ \A tag \in DcTags, dirty \in BOOLEAN :
          TlbHandleEviction(hier, tag, 0, dirty) = hier

\* A hierarchy in which an Insert would replace a clean valid entry of one
\* cache, and another a dirty entry of L3.
C29_Witness ==
    /\ \E level \in 1 .. 3, tag \in DcTags :
          /\ ~ValidIn(hier, level, tag)
          /\ Replaced(hier, level, tag).valid
          /\ ~Replaced(hier, level, tag).dirty
    /\ \E tag \in DcTags : ReplacesDirty(hier, 3, tag)

(***************************************************************************)
(* Properties of the fill after a miss                                     *)
(***************************************************************************)
\* The last call was a data access that missed L1, L2 and L3, and returned.
FullMiss == hierLog.kind = "access" /\ ~hierLog.hit /\ hier.status = "running"

\* C30: when a data access that missed L1, L2 and L3 has returned, the line
\* accessed is valid in all three caches, clean in L3 and in L2, and dirty in
\* L1 exactly when the access was a write.
C30_FullMissFillsAllLevels ==
    FullMiss =>
        LET tag == Shr(hierLog.paddr, DcLineBits)
        IN  /\ \A level \in 1 .. 3 : ValidIn(hier, level, tag)
            /\ ~DirtyIn(hier, 3, tag)
            /\ ~DirtyIn(hier, 2, tag)
            /\ DirtyIn(hier, 1, tag) <=> hierLog.isWrite

(***************************************************************************)
(* Properties of the tags used between the levels                          *)
(***************************************************************************)
\* The tag of the address at a level, and the tags any level can hold.
TagAt(h, level, paddr) == Shr(paddr, h.caches[level].offsetBits)

LineTags == {Shr(paddr, DcLineBits) : paddr \in LinePaddrs} \cup {0}

\* This step is a write access that misses L1 and hits L2, from whose fill of
\* L1 no dirty line is written back.
WriteHitsL2 ==
    /\ hierLog'.kind = "access" /\ hierLog'.isWrite
    /\ hierLog'.ops = hierLog.ops + 1
    /\ ~ValidIn(hier, 1, TagAt(hier, 1, hierLog'.paddr))
    /\ ValidIn(hier, 2, TagAt(hier, 2, hierLog'.paddr))
    /\ hier'.caches[1].writebacks = hier.caches[1].writebacks

\* C31: a write that misses L1 and hits L2 leaves the L2 entry under the
\* line's L2 tag dirty, and no L2 entry under another tag is created,
\* removed or made dirty by it, whatever the line sizes of L1 and L2.
C31_WriteHitUpdatesL2UnderItsTag ==
    [][WriteHitsL2 =>
          LET l2CacheTag == TagAt(hier, 2, hierLog'.paddr)
          IN  /\ DirtyIn(hier', 2, l2CacheTag)
              /\ \A tag \in LineTags \ {l2CacheTag} :
                    /\ ValidIn(hier', 2, tag) <=> ValidIn(hier, 2, tag)
                    /\ DirtyIn(hier', 2, tag) <=> DirtyIn(hier, 2, tag)
      ]_vars

\* A line that the level holds dirty before the step and does not hold after
\* it: the step has evicted it.
EvictsDirty(level, tag) == DirtyIn(hier, level, tag) /\ ~ValidIn(hier', level, tag)

\* The tag, at the next level, of the line with this tag at the level:
\* tag << offsetBits_ >> nextLevel_->GetOffsetBits()
NextLevelTag(h, level, tag) ==
    Shr(Shl(tag, h.caches[level].offsetBits), h.caches[level + 1].offsetBits)

\* C32: a dirty line evicted from L1 or from L2 is inserted into the next
\* level as a write under the next level's tag of its address: after the
\* step the next level holds that tag dirty (or, for L3, has written it back
\* to memory during the step), whatever the line sizes of the two levels.
C32_EvictionUsesNextLevelTag ==
    [][\A level \in 1 .. 2 : \A tag \in LineTags :
          EvictsDirty(level, tag) =>
              \/ DirtyIn(hier', level + 1, NextLevelTag(hier, level, tag))
              \/ level = 2 /\ NextLevelTag(hier, level, tag) \in hier'.writtenBack
      ]_vars

(***************************************************************************)
(* Properties of the translation path                                      *)
(***************************************************************************)
\* C33: a translation access (TranslateLookup) leaves L1 as it was: its
\* entries with their dirty bits and LRU counters, its LRU clock and all of
\* its counters are the same before and after, whatever it fills and evicts
\* in L2 and L3.
C33_TranslationLeavesL1Alone ==
    [][(hierLog'.kind = "translate" /\ hierLog'.ops = hierLog.ops + 1)
          => hier'.caches[1] = hier.caches[1]]_vars

\* A translation access that missed L2 and L3 has returned, L2 has written
\* back a dirty line to make room, and L1 holds a dirty line.
C33_Witness ==
    /\ hierLog.kind = "translate" /\ ~hierLog.hit
    /\ hier.caches[2].writebacks >= 1
    /\ \E tag \in DcTags : DirtyIn(hier, 1, tag)
    /\ \E tag \in DcTags : ValidIn(hier, 1, tag) /\ ~ValidIn(hier, 2, tag)

(***************************************************************************)
(* Coherence of the TLBs and the page-walk caches with the page table      *)
(***************************************************************************)
VirtualPages == 0 .. Pow2(PgdBits + PudBits + PmdBits + PteBits) - 1

PageAddr(vpn) == Shl(vpn, kPageShift)

\* The frames the walk from cr3 reads for vaddr in the page table as it is:
\* NoPfn below the first entry that is not present.
WalkPud(vaddr) ==
    IF Present(pt.cr3, GetPgdIndex(vaddr))
    THEN pt.pageTables[pt.cr3][GetPgdIndex(vaddr)].pfn ELSE NoPfn

WalkPmd(vaddr) ==
    IF WalkPud(vaddr) # NoPfn /\ Present(Shl(WalkPud(vaddr), kPageShift), GetPudIndex(vaddr))
    THEN pt.pageTables[Shl(WalkPud(vaddr), kPageShift)][GetPudIndex(vaddr)].pfn ELSE NoPfn

WalkPte(vaddr) ==
    IF WalkPmd(vaddr) # NoPfn /\ Present(Shl(WalkPmd(vaddr), kPageShift), GetPmdIndex(vaddr))
    THEN pt.pageTables[Shl(WalkPmd(vaddr), kPageShift)][GetPmdIndex(vaddr)].pfn ELSE NoPfn

WalkFrame(vaddr) ==
    IF WalkPte(vaddr) # NoPfn /\ Present(Shl(WalkPte(vaddr), kPageShift), GetPteIndex(vaddr))
    THEN pt.pageTables[Shl(WalkPte(vaddr), kPageShift)][GetPteIndex(vaddr)].pfn ELSE NoPfn

TlbCoherent(c) ==
    \A vpn \in VirtualPages : \A pfn \in 0 .. NumFrames :
        TlbHolds(c, vpn, pfn) => WalkFrame(PageAddr(vpn)) = pfn

PwcCoherent ==
    \A vpn \in VirtualPages : \A pfn \in 0 .. NumFrames :
        /\ PwcHolds(pt.pgdPwc, PageAddr(vpn), pfn) => WalkPud(PageAddr(vpn)) = pfn
        /\ PwcHolds(pt.pudPwc, PageAddr(vpn), pfn) => WalkPmd(PageAddr(vpn)) = pfn
        /\ PwcHolds(pt.pmdPwc, PageAddr(vpn), pfn) => WalkPte(PageAddr(vpn)) = pfn

\* C34: every valid TLB entry (page -> frame) and every valid PWC entry
\* (tag -> child table frame) is what the walk from cr3 reads in the page
\* table of the same state, so a translation served by a hit returns what
\* the full walk would return.
C34_CachesAgreeWithPageTable ==
    /\ TlbCoherent(pt.l1Tlb)
    /\ TlbCoherent(pt.l2Tlb)
    /\ PwcCoherent
    /\ (Returned /\ last.path # "fullWalk") => WalkFrame(last.vaddr) = LastPfn

(***************************************************************************)
(* Bin::Insert with a narrow key width                                     *)
(***************************************************************************)
NarrowWidths == {w \in KeyWidths : w < 8}

\* Bin::Insert(_, keyWidth) on bin b took a free slot below 2^(keyWidth - 1)
\* and unlinked that slot, and no other, from the free list.
TakesNarrowSlot(b, keyWidth) ==
    LET ins == BinInsert(b, keyWidth)
    IN  /\ ins.ok
        /\ ins.ptr \in FreeSlots(b)
        /\ ins.ptr < Pow2(keyWidth - 1)
        /\ FreeSlots(ins.bin) = FreeSlots(b) \ {ins.ptr}

\* C35: on a bin that is not full, an insertion with a key width below 8
\* returns a free slot smaller than 2^(keyWidth - 1) and removes exactly
\* that slot from the free list; when the bin has no such free slot the
\* insertion fails.
C35_NarrowInsertStaysBelowThreshold ==
    memKind # "linear" =>
        \A i \in DOMAIN Po2CTableOf(mem).tab : \A keyWidth \in NarrowWidths :
            LET b == Po2CTableOf(mem).tab[i]
            IN  ~Full(b) =>
                   IF \E slot \in FreeSlots(b) : slot < Pow2(keyWidth - 1)
                   THEN TakesNarrowSlot(b, keyWidth)
                   ELSE ~BinInsert(b, keyWidth).ok

(***************************************************************************)
(* Narrow page-table entries                                               *)
(***************************************************************************)
\* The address of the entry a call of the tiny-pointer allocator or decoder
\* was made for: table address + index * entry width, as CompletePgdCacheHit
\* computes pudEntryAddr.
EntryAddrOf(call) == call.tableAddr + call.index * call.entryWidth

\* C36: every call the page table makes to the tiny-pointer allocator or
\* decoder for a narrow entry is given the physical address of that entry
\* as its key.
C36_KeyIsEntryAddress ==
    \A call \in pt.tinyPtrCalls : call.key = EntryAddrOf(call)

\* C37: every narrow entry (4, 2 or 1 byte) that is present was given a
\* frame by the allocator, and resolving the entry, by decoding the tiny
\* pointer stored in its bit-field, yields that frame.
C37_NarrowEntryResolvesToItsFrame ==
    \A call \in pt.tinyPtrCalls :
        LET entry == pt.pageTables[call.tableAddr][call.index]
            d == LinearDecodeFrame(pt.physMem, call.key, entry.tinyPointer)
        IN  entry.present =>
               /\ call.frame # NoPfn
               /\ d.ok
               /\ d.frame = call.frame

(***************************************************************************)
(* Permanence of the page-table pages                                      *)
(***************************************************************************)
\* Every page of the map pageTables_ is kept by the step, and every entry of
\* it that is present keeps its value.
PagesKept ==
    \A addr \in DOMAIN pt.pageTables :
        /\ addr \in DOMAIN pt'.pageTables
        /\ \A index \in DOMAIN pt.pageTables[addr] :
              pt.pageTables[addr][index].present =>
                 pt'.pageTables[addr][index] = pt.pageTables[addr][index]

\* C38: no step replaces or zeroes a page-table page: every page of the map
\* stays in the map and every present entry keeps its present bit and its
\* pointer; in particular the allocation of a data frame leaves the pages
\* of the page tables, the root included, as they are.
C38_TablePagesArePermanent == [][PagesKept]_vars

(***************************************************************************)
(* Frames of data pages and frames of page-table pages                     *)
(***************************************************************************)
\* The valid entries of a cache, as <<tag, value>> pairs.
ValidEntries(c) ==
    {<<c.sets[i][w].tag, c.sets[i][w].value>> :
        <<i, w>> \in {x \in (0 .. c.numSets - 1) \X (0 .. c.numWays - 1) :
                         c.sets[x[1]][x[2]].valid}}

\* The present entries of the tables of one level, followed from the
\* tables of the level above: parents holds <<index path, table frame>>
\* pairs, and so does the result, for the tables (or pages) one level down.
Links(parents, entryNum) ==
    UNION {{<<x[1] * entryNum + i, pt.pageTables[Shl(x[2], kPageShift)][i].pfn>> :
               i \in {j \in 0 .. entryNum - 1 : Present(Shl(x[2], kPageShift), j)}} :
           x \in parents}

PudLinks == Links({<<0, Shr(pt.cr3, kPageShift)>>}, pgdEntryNum)

PmdLinks == Links(PudLinks, pudEntryNum)

PteLinks == Links(PmdLinks, pmdEntryNum)

\* The <<page, frame>> pairs of the mapping: of the page table as it is, and
\* of the valid entries of the two TLBs.
Mapped ==
    Links(PteLinks, pteEntryNum) \cup ValidEntries(pt.l1Tlb) \cup ValidEntries(pt.l2Tlb)

\* The frames used as page-table pages: the root, and the frames the
\* present entries of the PGD, PUD and PMD tables and the valid entries of
\* the page-walk caches point to.
TableFrames ==
    {Shr(pt.cr3, kPageShift)}
        \cup {x[2] : x \in PudLinks \cup PmdLinks \cup PteLinks}
        \cup {e[2] : e \in ValidEntries(pt.pgdPwc.cache) \cup ValidEntries(pt.pudPwc.cache)
                               \cup ValidEntries(pt.pmdPwc.cache)}

\* C39: two distinct virtual pages are never mapped to the same frame, and
\* no frame a data page is mapped to is a page-table page (root, PUD, PMD or
\* PTE table).
C39_FramesAreExclusive ==
    \E mapped \in {Mapped}, tables \in {TableFrames} :
        /\ \A m1, m2 \in mapped : m1[1] # m2[1] => m1[2] # m2[2]
        /\ \A m \in mapped : m[2] \notin tables

\* After the root table has been replaced and a page translated again.
C39_Witness ==
    /\ Returned
    /\ numCalls = MaxRefs
    /\ last.path = "fullWalk"
    /\ firstResult[last.vaddr] # last.paddr
    /\ \E m1, m2 \in Mapped : m1[1] # m2[1]

(***************************************************************************)
(* Range of the frames of the tiny-pointer allocator                       *)
(***************************************************************************)
\* The number of frames of the memory under test: the bits of the bitmap
\* frameAllocated_, or the n the bare table was constructed for.
TotalFrames == IF memKind = "po2c" THEN Po2CFrames ELSE mem.numFrames

\* C40: every frame number the tiny-pointer allocator returns is below the
\* total number of frames, whether or not that number is a multiple of the
\* bin size.
C40_FrameInsideBitmap ==
    (Allocated /\ memKind # "linear") => lastAlloc.frame < TotalFrames

====
